---- MODULE Spec2Model ----
(***************************************************************************)
(* A model of the bfffs storage core: the cluster free-space map, the      *)
(* DDML, the IDML (RIDT + AllocT + cache) and the Database's transaction   *)
(* machinery (fswrite / sync_transaction / labels).                        *)
(*                                                                         *)
(* Specification Spec   : IDML operations, each run to completion, on top  *)
(*                        of one Cluster.  Records are one LBA long and    *)
(*                        uncompressed (the DDML under src/ only knows     *)
(*                        Compression::None).                              *)
(* Specification SpecDb : Database::fswrite tasks and                      *)
(*                        Database::sync_transaction, interleaved at their *)
(*                        suspension points, with a write-back device.     *)
(***************************************************************************)
EXTENDS Integers, Sequences, FiniteSets, TLC

\* ------------------------------------------------------------------ bounds
TotalZones == 2
ZoneSize == 2
MaxRid == 2
MaxRef == 2
NumVals == 2
NumWriters == 2
OpsPerWrite == 2
MaxTxg == 2
NumKeys == 11
NumRewritten == 1
MaxOps == 4
LbaBits == 3
NumTasks == 2
MaxAdvance == 1
BYTES_PER_LBA == 2

Zids == 0 .. (TotalZones - 1)
Lbas == 0 .. (TotalZones * ZoneSize - 1)
Rids == 0 .. (MaxRid - 1)
Vals == 1 .. NumVals

\* ----------------------------------------------------------------- helpers
EmptyMap == [x \in {} |-> 0]
MapPut(f, k, v) == [x \in (DOMAIN f) \cup {k} |-> IF x = k THEN v ELSE f[x]]
MapDel(f, k) == [x \in (DOMAIN f) \ {k} |-> f[x]]
Min(S) == CHOOSE x \in S : \A y \in S : x <= y
Blank == 0
Ok(v) == [err |-> "", val |-> v]
Err(e) == [err |-> e, val |-> 0]
ENOENT == "ENOENT"
NoAlloc == [some |-> FALSE, zone |-> 0, lba |-> 0]
SomeAlloc(z, l) == [some |-> TRUE, zone |-> z, lba |-> l]
Panic(s, why) == [s EXCEPT !.panic = IF s.panic = "" THEN why ELSE s.panic]
KeyRid(rid) == <<"Rid", rid>>
KeyPBA(pba) == <<"PBA", pba>>

\* --------------------------------------------------------------- the vdev
\* Zones are laid out back to back, without padding.
zone_limits(z) == <<z * ZoneSize, (z + 1) * ZoneSize>>
lba2zone(lba) == lba \div ZoneSize

\* ---------------------------------------------------------- FreeSpaceMap
\* The state record s carries the free-space map in s.zones (a sequence,
\* zone id z at index z+1), s.empty_zones and s.open_zones.
is_empty(s, z) == z >= Len(s.zones) \/ z \in s.empty_zones

find_empty(s) ==
    IF s.empty_zones # {} THEN [some |-> TRUE, zone |-> Min(s.empty_zones)]
    ELSE IF Len(s.zones) < TotalZones THEN [some |-> TRUE, zone |-> Len(s.zones)]
    ELSE [some |-> FALSE, zone |-> 0]

\* open_zone(id, start, end, lbas): returns the new state and the allocation
open_zone(s, id, start, end, lbas) ==
    IF ~is_empty(s, id)
    THEN [st |-> Panic(s, "Can only open empty zones"), res |-> NoAlloc]
    ELSE
    LET grow == id >= Len(s.zones)
        empties1 == IF grow THEN s.empty_zones \cup (Len(s.zones) .. (id - 1))
                    ELSE s.empty_zones
        zones1 == IF grow
                  THEN [i \in 1 .. (id + 1) |->
                          IF i <= Len(s.zones) THEN s.zones[i]
                          ELSE [freed_blocks |-> 0, total_blocks |-> 0]]
                  ELSE s.zones
        space == end - start
        zones2 == [zones1 EXCEPT ![id + 1] =
                      [freed_blocks |-> 0, total_blocks |-> space]]
        allocated == lbas > 0 /\ lbas <= space
        wp == IF allocated THEN start + lbas ELSE start
        s1 == [s EXCEPT !.zones = zones2,
                        !.empty_zones = empties1 \ {id},
                        !.open_zones = MapPut(s.open_zones, id,
                                  [start |-> start, write_pointer |-> wp])]
    IN IF id \in DOMAIN s.open_zones
       THEN [st |-> Panic(s, "Can only open empty zones"), res |-> NoAlloc]
       ELSE [st |-> s1,
             res |-> IF allocated THEN SomeAlloc(id, start) ELSE NoAlloc]

\* a search that would prefer the highest-numbered open zone
try_allocate_highest(s, lbas) ==
    LET fits == {z \in DOMAIN s.open_zones :
                   s.zones[z + 1].total_blocks
                     - (s.open_zones[z].write_pointer - s.open_zones[z].start)
                   >= lbas}
    IN IF fits = {} THEN [st |-> s, res |-> NoAlloc]
       ELSE LET z == CHOOSE m \in fits : \A y \in fits : y <= m
                lba == s.open_zones[z].write_pointer
            IN [st |-> [s EXCEPT !.open_zones[z].write_pointer = lba + lbas],
                res |-> SomeAlloc(z, lba)]

\* an allocation that would start over at the zone's first LBA
try_allocate_from_start(s, lbas) ==
    LET fits == {z \in DOMAIN s.open_zones :
                   s.zones[z + 1].total_blocks
                     - (s.open_zones[z].write_pointer - s.open_zones[z].start)
                   >= lbas}
    IN IF fits = {} THEN [st |-> s, res |-> NoAlloc]
       ELSE LET z == Min(fits)
                lba == s.open_zones[z].start
            IN [st |-> [s EXCEPT !.open_zones[z].write_pointer = lba + lbas],
                res |-> SomeAlloc(z, lba)]

try_allocate(s, lbas) ==
    LET fits == {z \in DOMAIN s.open_zones :
                   s.zones[z + 1].total_blocks
                     - (s.open_zones[z].write_pointer - s.open_zones[z].start)
                   >= lbas}
    IN IF fits = {} THEN [st |-> s, res |-> NoAlloc]
       ELSE LET z == Min(fits)
                lba == s.open_zones[z].write_pointer
            IN [st |-> [s EXCEPT !.open_zones[z].write_pointer = lba + lbas],
                res |-> SomeAlloc(z, lba)]

\* a finish_zone that would not assert that the zone was open
fsm_finish_zone_lenient(s, z) ==
    [s EXCEPT !.open_zones = MapDel(s.open_zones, z)]

fsm_finish_zone(s, z) ==
    IF z \notin DOMAIN s.open_zones
    THEN Panic(s, "Can't finish a Zone that isn't open")
    ELSE [s EXCEPT !.open_zones = MapDel(s.open_zones, z)]

\* a free that would only count
fsm_free_uncounted(s, z, length) ==
    IF is_empty(s, z) THEN Panic(s, "Can't free from an empty zone")
    ELSE [s EXCEPT !.zones[z + 1].freed_blocks = @ + length]

fsm_free(s, z, length) ==
    IF is_empty(s, z) THEN Panic(s, "Can't free from an empty zone")
    ELSE LET freed == s.zones[z + 1].freed_blocks + length
             s1 == [s EXCEPT !.zones[z + 1].freed_blocks = freed]
         IN IF freed > s.zones[z + 1].total_blocks
            THEN Panic(s1, "Double free detected")
            ELSE IF z \in DOMAIN s.open_zones
                    /\ s.open_zones[z].write_pointer - s.open_zones[z].start < freed
            THEN Panic(s1, "Double free detected in an open zone")
            ELSE s1

fsm_erase_zone(s, z) ==
    IF z \in DOMAIN s.open_zones THEN Panic(s, "Can't erase an open zone")
    ELSE IF z >= Len(s.zones) THEN Panic(s, "Can't erase an empty zone")
    ELSE
    LET empties1 == s.empty_zones \cup {z}
        used == {i \in 0 .. (Len(s.zones) - 1) : i \notin empties1}
        first_empty == IF used = {} THEN 0
                       ELSE (CHOOSE m \in used : \A y \in used : y <= m) + 1
    IN IF z = Len(s.zones) - 1
       THEN [s EXCEPT !.zones = SubSeq(s.zones, 1, first_empty),
                      !.empty_zones = {e \in empties1 : e < first_empty}]
       ELSE [s EXCEPT !.empty_zones = empties1]

\* --------------------------------------------------------------- Cluster
\* Operators that continue a computation take the result of the previous
\* step as a parameter, as the and_then closures of the code do.

\* a call on the RAID vdev, kept in the order the calls are made
VdevCall(method, zone) == [method |-> method, zone |-> zone]

\* 4) write to the vdev
write_at(a, space, v) ==
    IF a.res.some
    THEN [st |-> [a.st EXCEPT !.disk =
                    [l \in Lbas |-> IF l >= a.res.lba /\ l < a.res.lba + space
                                    THEN v ELSE a.st.disk[l]],
                  !.vdev = Append(@, VdevCall("write_at", a.res.zone))],
          ok |-> TRUE, lba |-> a.res.lba]
    ELSE [st |-> a.st, ok |-> FALSE, lba |-> 0]

\* 2) try opening a new zone, and allocating from that
open_found(s, e, space) ==
    IF e.some
    THEN open_zone(s, e.zone, zone_limits(e.zone)[1], zone_limits(e.zone)[2], space)
    ELSE [st |-> s, res |-> NoAlloc]

or_open(a, space) ==
    IF a.res.some THEN a ELSE open_found(a.st, find_empty(a.st), space)

\* Cluster::write for a buffer of `space` LBAs holding value v.
Cluster_write(s, space, v) ==
    write_at(or_open(try_allocate(s, space), space), space, v)

\* Cluster::write for a buffer of len bytes
Cluster_write_buf(s, len, v) == Cluster_write(s, len \div BYTES_PER_LBA, v)

\* Cluster::free as a build with or without cfg(test) runs it
Cluster_free_cfg(s, lba, length, cfg_test) ==
    IF cfg_test /\ lba2zone(lba) # lba2zone(lba + length - 1)
    THEN [Panic(s, "Can't free across multiple zones")
             EXCEPT !.frees = Append(@, lba)]
    ELSE [fsm_free(s, lba2zone(lba), length) EXCEPT !.frees = Append(@, lba)]

Cluster_free(s, lba, length) ==
    [fsm_free(s, lba2zone(lba), length) EXCEPT !.frees = Append(@, lba)]

vdev_erase_zone(s, z) ==
    IF s.panic # "" THEN s
    ELSE [s EXCEPT !.disk = [l \in Lbas |->
             IF l >= zone_limits(z)[1] /\ l < zone_limits(z)[2] THEN Blank ELSE @[l]],
                   !.vdev = Append(@, VdevCall("erase_zone", z))]

Cluster_erase_zone(s, z) == vdev_erase_zone(fsm_erase_zone(s, z), z)

\* ------------------------------------------------------------------ DDML
\* A DRP is its PBA; asize is one LBA.  pool.write(..).unwrap() panics when
\* the pool is full.
DDML_put_done(w, v) ==
    IF ~w.ok THEN [st |-> Panic(w.st, "ENOSPC"), pba |-> 0]
    ELSE [st |-> [w.st EXCEPT !.cache = MapPut(@, KeyPBA(w.lba), v)],
          pba |-> w.lba]

DDML_put(s, v) == DDML_put_done(Cluster_write(s, 1, v), v)

DDML_delete(s, pba) ==
    Cluster_free([s EXCEPT !.cache = MapDel(@, KeyPBA(pba))], pba, 1)

DDML_get(s, pba) ==
    IF KeyPBA(pba) \in DOMAIN s.cache
    THEN [st |-> s, val |-> s.cache[KeyPBA(pba)]]
    ELSE [st |-> [s EXCEPT !.cache = MapPut(@, KeyPBA(pba), s.disk[pba])],
          val |-> s.disk[pba]]

\* pop: the cached buffer if there is one, else the record as read; either
\* way the cache entry is gone and the storage is freed
DDML_pop(s, pba) ==
    [st |-> DDML_delete(s, pba),
     val |-> IF KeyPBA(pba) \in DOMAIN s.cache THEN s.cache[KeyPBA(pba)]
             ELSE s.disk[pba]]

DDML_evict(s, pba) == [s EXCEPT !.cache = MapDel(@, KeyPBA(pba))]

\* ------------------------------------------------------------------ IDML
\* ridt : RID -> [pba, refcount]   (the DTree<RID, RidtEntry>, as a map)
\* alloct : PBA -> RID             (the DTree<PBA, RID>, as a map)
RidtEntry_new(pba) == [pba |-> pba, refcount |-> 1]

\* Begin an operation: the per-operation logs start empty.
Begin(s) == [s EXCEPT !.frees = <<>>, !.dests = <<>>, !.vdev = <<>>]

put_insert(w, rid, v) ==
    IF w.st.panic # "" THEN [st |-> w.st, res |-> Err("EPANIC")]
    ELSE IF rid \in DOMAIN w.st.ridt
    THEN [st |-> Panic(w.st, "RID was not unique"), res |-> Err("EPANIC")]
    ELSE IF w.pba \in DOMAIN w.st.alloct
    THEN [st |-> Panic(w.st, "Double allocate without free"), res |-> Err("EPANIC")]
    ELSE [st |-> [w.st EXCEPT !.alloct = MapPut(@, w.pba, rid),
                              !.ridt = MapPut(@, rid, RidtEntry_new(w.pba)),
                              !.cache = MapPut(@, KeyRid(rid), v)],
          res |-> Ok(rid)]

IDML_put(s, v) ==
    put_insert(DDML_put([Begin(s) EXCEPT !.next_rid = @ + 1], v), s.next_rid, v)

inject_insert(w, rid, refcount) ==
    IF w.st.panic # "" THEN [st |-> w.st, res |-> Err("EPANIC")]
    ELSE [st |-> [w.st EXCEPT
                    !.ridt = MapPut(@, rid, [pba |-> w.pba, refcount |-> refcount]),
                    !.alloct = MapPut(@, w.pba, rid)],
          res |-> Ok(rid)]

\* The unit tests' inject_record: a record with a given refcount, as a clone
\* would leave it.  Its storage is written through the DDML first.
inject_record(s, v, refcount) ==
    inject_insert(DDML_put([Begin(s) EXCEPT !.next_rid = @ + 1], v),
                  s.next_rid, refcount)

get_cache(g, rid) ==
    [st |-> [g.st EXCEPT !.cache = MapPut(@, KeyRid(rid), g.val)],
     res |-> Ok(g.val)]

IDML_get(s, rid) ==
    IF KeyRid(rid) \in DOMAIN s.cache
    THEN [st |-> Begin(s), res |-> Ok(s.cache[KeyRid(rid)])]
    ELSE IF rid \notin DOMAIN s.ridt THEN [st |-> Begin(s), res |-> Err(ENOENT)]
    ELSE get_cache(DDML_get(Begin(s), s.ridt[rid].pba), rid)

\* The removal of the last reference: both trees lose their entry.
remove_last(s, rid, pba) ==
    IF pba \in DOMAIN s.alloct
    THEN [s EXCEPT !.alloct = MapDel(@, pba), !.ridt = MapDel(@, rid)]
    ELSE Panic([s EXCEPT !.ridt = MapDel(@, rid)], "assert!(old_rid.is_some())")

IDML_delete_keepcache(s, rid) ==
    IF rid \notin DOMAIN s.ridt THEN [st |-> Begin(s), res |-> Err(ENOENT)]
    ELSE IF s.ridt[rid].refcount - 1 = 0
    THEN [st |-> remove_last(DDML_delete(Begin(s), s.ridt[rid].pba),
                             rid, s.ridt[rid].pba),
          res |-> Ok(0)]
    ELSE [st |-> [Begin(s) EXCEPT !.ridt[rid].refcount = @ - 1], res |-> Ok(0)]

IDML_delete_noalloct(s, rid) ==
    IF rid \notin DOMAIN s.ridt THEN [st |-> Begin(s), res |-> Err(ENOENT)]
    ELSE IF s.ridt[rid].refcount - 1 = 0
    THEN [st |-> [DDML_delete([Begin(s) EXCEPT !.cache = MapDel(@, KeyRid(rid))],
                              s.ridt[rid].pba)
                    EXCEPT !.ridt = MapDel(@, rid)],
          res |-> Ok(0)]
    ELSE [st |-> [Begin(s) EXCEPT !.ridt[rid].refcount = @ - 1], res |-> Ok(0)]

IDML_delete_eager(s, rid) ==
    IF rid \notin DOMAIN s.ridt THEN [st |-> Begin(s), res |-> Err(ENOENT)]
    ELSE [st |-> remove_last(
                   DDML_delete([Begin(s) EXCEPT !.cache = MapDel(@, KeyRid(rid))],
                               s.ridt[rid].pba),
                   rid, s.ridt[rid].pba),
          res |-> Ok(0)]

IDML_delete_keepzero(s, rid) ==
    IF rid \notin DOMAIN s.ridt THEN [st |-> Begin(s), res |-> Err(ENOENT)]
    ELSE [st |-> [Begin(s) EXCEPT !.ridt[rid].refcount = @ - 1], res |-> Ok(0)]

IDML_delete(s, rid) ==
    IF rid \notin DOMAIN s.ridt THEN [st |-> Begin(s), res |-> Err(ENOENT)]
    ELSE IF s.ridt[rid].refcount - 1 = 0
    THEN [st |-> remove_last(
                   DDML_delete([Begin(s) EXCEPT !.cache = MapDel(@, KeyRid(rid))],
                               s.ridt[rid].pba),
                   rid, s.ridt[rid].pba),
          res |-> Ok(0)]
    ELSE [st |-> [Begin(s) EXCEPT !.ridt[rid].refcount = @ - 1], res |-> Ok(0)]

\* pop, cache miss on the last reference: ddml.pop_direct, then the removals
pop_removed(p, rid, pba) ==
    [st |-> remove_last(p.st, rid, pba), res |-> Ok(p.val)]

\* pop, cache miss on a shared record: ddml.get_direct, then the new refcount
pop_kept(g, rid) ==
    [st |-> [g.st EXCEPT !.ridt[rid].refcount = @ - 1], res |-> Ok(g.val)]

IDML_pop(s, rid) ==
    IF rid \notin DOMAIN s.ridt THEN [st |-> Begin(s), res |-> Err(ENOENT)]
    ELSE IF s.ridt[rid].refcount - 1 = 0
    THEN IF KeyRid(rid) \in DOMAIN s.cache
         THEN [st |-> remove_last(
                        DDML_delete([Begin(s) EXCEPT !.cache = MapDel(@, KeyRid(rid))],
                                    s.ridt[rid].pba),
                        rid, s.ridt[rid].pba),
               res |-> Ok(s.cache[KeyRid(rid)])]
         ELSE pop_removed(DDML_pop(Begin(s), s.ridt[rid].pba), rid, s.ridt[rid].pba)
    ELSE IF KeyRid(rid) \in DOMAIN s.cache
         THEN [st |-> [Begin(s) EXCEPT !.ridt[rid].refcount = @ - 1],
               res |-> Ok(s.cache[KeyRid(rid)])]
         ELSE pop_kept(DDML_get(Begin(s), s.ridt[rid].pba), rid)

IDML_evict(s, rid) == [s EXCEPT !.cache = MapDel(@, KeyRid(rid))]

\* move_record: rewrite the record of rid elsewhere and update both tables.
\* The old AllocT entry stays; clean_zone's range_delete removes it later.
move_insert(s, rid, pba) ==
    IF s.panic # "" THEN s
    ELSE [s EXCEPT !.ridt[rid].pba = pba,
                   !.alloct = MapPut(@, pba, rid),
                   !.dests = Append(@, pba)]

\* after put_direct: delete_direct of the old DRP, then the table updates
move_delete(w, rid) ==
    IF w.st.panic # "" THEN w.st
    ELSE move_insert(DDML_delete(w.st, w.st.ridt[rid].pba), rid, w.pba)

move_put(s, val, rid) == move_delete(DDML_put(s, val), rid)

\* cache miss: the record comes from get_direct
move_read(g, rid) == move_put(g.st, g.val, rid)

move_record_inplace(s, rid) ==
    IF rid \notin DOMAIN s.ridt
    THEN Panic(s, "Inconsistency in alloct.  Entry not found in RIDT")
    ELSE [DDML_delete(s, s.ridt[rid].pba) EXCEPT
            !.dests = Append(@, s.ridt[rid].pba)]

move_record_blank(s, rid) ==
    IF rid \notin DOMAIN s.ridt
    THEN Panic(s, "Inconsistency in alloct.  Entry not found in RIDT")
    ELSE move_put([s EXCEPT !.cache = MapDel(@, KeyRid(rid))], Blank, rid)

move_record(s, rid) ==
    IF rid \notin DOMAIN s.ridt
    THEN Panic(s, "Inconsistency in alloct.  Entry not found in RIDT")
    ELSE IF KeyRid(rid) \in DOMAIN s.cache
    THEN move_put(s, s.cache[KeyRid(rid)], rid)
    ELSE move_read(DDML_get(s, s.ridt[rid].pba), rid)

\* list_indirect_records is a lazy range over AllocT: the next record is
\* looked up after the previous one has been moved.
alloct_range(s, start, end) == {p \in DOMAIN s.alloct : p >= start /\ p < end}

\* a clean_zone that would move the first record of the zone only
move_all_once(s, cursor, end) ==
    IF s.panic # "" \/ alloct_range(s, cursor, end) = {} THEN s
    ELSE move_record(s, s.alloct[Min(alloct_range(s, cursor, end))])

RECURSIVE move_all(_, _, _)
move_next(s, pba, end) == move_all(move_record(s, s.alloct[pba]), pba + 1, end)

move_all(s, cursor, end) ==
    IF s.panic # "" \/ alloct_range(s, cursor, end) = {} THEN s
    ELSE move_next(s, Min(alloct_range(s, cursor, end)), end)

range_delete(t, start, end) == [p \in {q \in DOMAIN t : q < start \/ q >= end} |-> t[p]]

clean_range(s, start, end) ==
    IF s.panic # "" THEN s
    ELSE [s EXCEPT !.alloct = range_delete(@, start, end)]

zone_end(s, z) == zone_limits(z)[1] + s.zones[z + 1].total_blocks

IDML_clean_zone_norange(s, z) ==
    move_all(Begin(s), zone_limits(z)[1], zone_end(s, z))

\* clean_zone for the ClosedZone z = {pba: start of z, total_blocks, zid}
IDML_clean_zone(s, z) ==
    clean_range(move_all(Begin(s), zone_limits(z)[1], zone_end(s, z)),
                zone_limits(z)[1], zone_end(s, z))

\* check_ridt: both folds of the foreground consistency check
check_ridt(s) ==
    /\ \A pba \in DOMAIN s.alloct :
          /\ s.alloct[pba] \in DOMAIN s.ridt
          /\ s.ridt[s.alloct[pba]].pba = pba
    /\ \A rid \in DOMAIN s.ridt : s.ridt[rid].pba \in DOMAIN s.alloct

\* DDML::list_closed_zones: neither empty nor open
closed_zones(s) == {z \in 0 .. (Len(s.zones) - 1) :
                      ~is_empty(s, z) /\ z \notin DOMAIN s.open_zones}

\* =================================================================== state
VARIABLES
    zones, empty_zones, open_zones,   \* FreeSpaceMap
    disk,                             \* contents of the vdev, per LBA
    cache,                            \* Cache: Key -> buffer
    ridt, alloct, next_rid,           \* IDML
    panic,                            \* "" or the message of the panic that
                                      \* ended the process
    last,                             \* history: the last successful operation on
                                      \* the indirection tables
    contents, refs                    \* ghosts: what was put under each RID, and
                                      \* how many references the callers still hold

idmlvars == <<zones, empty_zones, open_zones, disk, cache, ridt, alloct,
              next_rid, panic, last, contents, refs>>

\* The Database (described with its actions below)
VARIABLES
    txg,                    \* IDML.transaction: the value under the RwLock
    txg_readers,            \* tasks that hold a read guard of the txg lock
    txg_writer,             \* TRUE while advance_transaction holds it exclusively
    wpc, wtxg, wops,        \* per fswrite task: position, the txg it was handed,
                            \* and how many of its operations have completed
    applied,                \* operations applied to the in-memory dataset tree
    fs_dirty, fs_root,      \* the dataset tree: dirty?, and its last flushed root
    forest_dirty, forest_val, forest_root,
                            \* the forest: dirty?, the TreeOnDisk it holds for the
                            \* dataset tree, and its own last flushed root
    idml_dirty,             \* RIDT/AllocT hold entries that were never flushed
    spc, steps,             \* sync_transaction: position, and the steps that
                            \* have completed in the current transaction
    volatile, media,        \* records in the device's cache / on stable storage
    label_volatile, label_media

dbvars == <<txg, txg_readers, txg_writer, wpc, wtxg, wops, applied, fs_dirty,
            fs_root, forest_dirty, forest_val, forest_root, idml_dirty, spc,
            steps, volatile, media, label_volatile, label_media>>

\* The Tree (described with its operations below)
VARIABLES
    bt_root,                \* the Node that the root pointer, TreePtr::Mem, holds
    bt_root_mem,            \* TRUE while the root pointer is a TreePtr::Mem
    bt_height,              \* Inner.height
    bt_panic,               \* "" or the message of the panic
    bt_last,                \* history: the last operation that changes the
                            \* tree, and what it returned
    bt_map,                 \* ghost: the inserts that no remove has followed
    bt_writes               \* history: the nodes that the last sync_all handed
                            \* to ddml.put, as they were serialized, in order

btvars == <<bt_root, bt_root_mem, bt_height, bt_panic, bt_last, bt_map,
            bt_writes>>

\* The VdevBlock (described with its operations below)
VARIABLES
    vb_queue,               \* Inner.queue: the BlockOps that wait to be issued
    vb_depth,               \* Inner.queue_depth
    vb_last_lba,            \* Inner.last_lba
    vb_inflight,            \* operations the leaf device has not yet completed
    vb_issued,              \* history: the LBAs in the order the leaf saw them
    vb_subs,                \* history: the LBAs in the order of submission
    vb_resolved             \* operations whose future has resolved

vbvars == <<vb_queue, vb_depth, vb_last_lba, vb_inflight, vb_issued, vb_subs,
            vb_resolved>>

\* IDML operations that run concurrently (described with their steps below)
VARIABLES
    tk                      \* per task: the operation it runs, its position in
                            \* it, and what its closures have captured

concvars == <<tk>>

\* Tree operations that run concurrently, one step per lock that is granted
VARIABLES
    tq,                     \* per task: the operation, the lock its future
                            \* waits for and the guards it holds
    tc_heap,                \* the nodes, each behind its own RwLock, by id;
                            \* id 0 is the root
    tc_height,
    tc_keys,                \* the keys that inserts have put and removes
                            \* have not taken
    tc_panic,
    tc_last,                \* the operation that resolved last
    tc_ops                  \* operations started

crabvars == <<tq, tc_heap, tc_height, tc_keys, tc_panic, tc_last, tc_ops>>

Cur == [zones |-> zones, empty_zones |-> empty_zones, open_zones |-> open_zones,
        disk |-> disk, cache |-> cache, ridt |-> ridt, alloct |-> alloct,
        next_rid |-> next_rid, panic |-> panic, frees |-> <<>>, dests |-> <<>>,
        vdev |-> <<>>]

Commit(s) ==
    /\ zones' = s.zones
    /\ empty_zones' = s.empty_zones
    /\ open_zones' = s.open_zones
    /\ disk' = s.disk
    /\ cache' = s.cache
    /\ ridt' = s.ridt
    /\ alloct' = s.alloct
    /\ next_rid' = s.next_rid
    /\ panic' = s.panic
    /\ UNCHANGED <<dbvars, btvars, vbvars, concvars, crabvars>>

NoLast == [op |-> "none", arg |-> 0, frees |-> <<>>, dests |-> <<>>,
           vdev |-> <<>>]

\* arg is the RID (put, inject, pop, delete) or the zone (clean_zone)
Log(op, arg, s) ==
    last' = [op |-> op, arg |-> arg, frees |-> s.frees, dests |-> s.dests,
             vdev |-> s.vdev]

IdmlInit ==
    /\ zones = <<>>
    /\ empty_zones = {}
    /\ open_zones = EmptyMap
    /\ disk = [l \in Lbas |-> Blank]
    /\ cache = EmptyMap
    /\ ridt = EmptyMap
    /\ alloct = EmptyMap
    /\ next_rid = 0
    /\ panic = ""
    /\ last = NoLast
    /\ contents = EmptyMap
    /\ refs = EmptyMap

\* ================================================================= actions
Released(rid, res) ==
    IF res.err = "" /\ rid \in DOMAIN refs /\ refs[rid] > 0
    THEN [refs EXCEPT ![rid] = @ - 1] ELSE refs

\* a record came into being under rid, with n references to value v
Created(op, rid, v, n, r) ==
    /\ Commit(r.st)
    /\ Log(op, rid, r.st)
    /\ contents' = IF r.st.panic = "" THEN MapPut(contents, rid, v) ELSE contents
    /\ refs' = IF r.st.panic = "" THEN MapPut(refs, rid, n) ELSE refs

\* a caller gave up one reference to rid
Dereferenced(op, rid, r) ==
    /\ Commit(r.st)
    /\ IF r.res.err = "" THEN Log(op, rid, r.st) ELSE UNCHANGED last
    /\ refs' = Released(rid, r.res)
    /\ UNCHANGED contents

Cleaned(z, s) ==
    /\ Commit(s)
    /\ Log("clean_zone", z, s)
    /\ UNCHANGED <<contents, refs>>

Put(v) ==
    /\ panic = ""
    /\ next_rid < MaxRid
    /\ Created("put", next_rid, v, 1, IDML_put(Cur, v))

InjectRecord(v, refcount) ==
    /\ panic = ""
    /\ next_rid < MaxRid
    /\ Created("inject", next_rid, v, refcount, inject_record(Cur, v, refcount))

Get(rid) ==
    /\ panic = ""
    /\ Commit(IDML_get(Cur, rid).st)
    /\ UNCHANGED <<last, contents, refs>>

Pop(rid) ==
    /\ panic = ""
    /\ Dereferenced("pop", rid, IDML_pop(Cur, rid))

Delete(rid) ==
    /\ panic = ""
    /\ Dereferenced("delete", rid, IDML_delete(Cur, rid))

Evict(rid) ==
    /\ panic = ""
    /\ KeyRid(rid) \in DOMAIN cache
    /\ Commit(IDML_evict(Cur, rid))
    /\ UNCHANGED <<last, contents, refs>>

\* The cache may also drop a DDML-level entry at any time.
EvictPBA(pba) ==
    /\ panic = ""
    /\ KeyPBA(pba) \in DOMAIN cache
    /\ Commit(DDML_evict(Cur, pba))
    /\ UNCHANGED <<last, contents, refs>>

FinishZone(z) ==
    /\ panic = ""
    /\ z \in DOMAIN open_zones
    /\ Commit(fsm_finish_zone(Cur, z))
    /\ UNCHANGED <<last, contents, refs>>

CleanZone(z) ==
    /\ panic = ""
    /\ z \in closed_zones(Cur)
    /\ Cleaned(z, IDML_clean_zone(Cur, z))

\* A closed zone is erased only once the AllocT shows that nothing uses it.
EraseZone(z) ==
    /\ panic = ""
    /\ z \in closed_zones(Cur)
    /\ \A pba \in DOMAIN alloct : lba2zone(pba) # z
    /\ Commit(Cluster_erase_zone(Cur, z))
    /\ UNCHANGED <<last, contents, refs>>

\* ---- the Cluster and its FreeSpaceMap called directly, as their unit tests
\* call them: nothing guards a call but the assertions of the code itself
MaxSpace == ZoneSize + 1

\* what a call on the Cluster leaves behind: dests holds the LBA that
\* Cluster::write returned (none if it failed with ENOSPC)
Called(op, arg, s, dests) ==
    /\ Commit(s)
    /\ last' = [op |-> op, arg |-> arg, frees |-> s.frees, dests |-> dests,
                vdev |-> s.vdev]
    /\ UNCHANGED <<contents, refs>>

Written(space, w) ==
    Called("write", space, w.st, IF w.ok THEN <<w.lba>> ELSE <<>>)

FsmWrite(space) ==
    /\ panic = ""
    /\ Written(space, Cluster_write(Cur, space, 1))

MaxBuf == MaxSpace * BYTES_PER_LBA

WrittenBuf(len, w) ==
    Called("write_buf", len, w.st, IF w.ok THEN <<w.lba>> ELSE <<>>)

FsmWriteBuf(len) ==
    /\ panic = ""
    /\ WrittenBuf(len, Cluster_write_buf(Cur, len, 1))

FsmOpenZone(z, lbas) ==
    /\ panic = ""
    /\ Called("open_zone", z,
              open_zone(Cur, z, zone_limits(z)[1], zone_limits(z)[2], lbas).st,
              <<>>)

FsmFinishZone(z) ==
    /\ panic = ""
    /\ Called("finish_zone", z, fsm_finish_zone(Cur, z), <<>>)

FsmEraseZone(z) ==
    /\ panic = ""
    /\ Called("erase_zone", z, Cluster_erase_zone(Cur, z), <<>>)

\* cfg_test tells which build runs: the assertion on the end of the range is
\* compiled into test builds only
FsmFree(lba, length, cfg_test) ==
    /\ panic = ""
    /\ Called("free", lba, Cluster_free_cfg(Cur, lba, length, cfg_test), <<>>)

\* ---- the consistency check, run on tables that were filled in entry by
\* entry, as the unit tests of check_ridt fill them
RidtInsert(rid, pba, refcount) ==
    /\ Commit([Cur EXCEPT !.ridt = MapPut(@, rid, [pba |-> pba,
                                                   refcount |-> refcount])])
    /\ last' = [NoLast EXCEPT !.op = "ridt.insert", !.arg = rid]
    /\ UNCHANGED <<contents, refs>>

AlloctInsert(pba, rid) ==
    /\ Commit([Cur EXCEPT !.alloct = MapPut(@, pba, rid)])
    /\ last' = [NoLast EXCEPT !.op = "alloct.insert", !.arg = pba]
    /\ UNCHANGED <<contents, refs>>

\* check_ridt().wait(): the verdict is kept in last.arg, 1 for true
CheckRidt ==
    /\ Commit(Cur)
    /\ last' = [NoLast EXCEPT !.op = "check_ridt",
                              !.arg = IF check_ridt(Cur) THEN 1 ELSE 0]
    /\ UNCHANGED <<contents, refs>>

\* ================================================================ Database
\* fswrite tasks and sync_transaction, interleaved wherever a future may be
\* suspended.  One filesystem exists (new_fs has put it into `filesystems`).  The device has a write-back cache: a completed write sits in
\* `volatile` until the device destages it or a sync_all forces it out.
Writers == 1 .. NumWriters
NoRec == [kind |-> "none", txg |-> 0, ops |-> {}]
FsRec(t, ops) == [kind |-> "fs", txg |-> t, ops |-> ops]
\* the forest's root record carries the TreeOnDisk of the dataset tree
ForestRec(t, tod) == [kind |-> "forest", txg |-> t, ops |-> tod.ops]
NoLabel == [valid |-> FALSE, txg |-> 0, forest |-> NoRec, fs |-> NoRec,
            idml_flushed |-> FALSE]

DbInit ==
    /\ txg = 0
    /\ txg_readers = {}
    /\ txg_writer = FALSE
    /\ wpc = [w \in Writers |-> "idle"]
    /\ wtxg = [w \in Writers |-> 0]
    /\ wops = [w \in Writers |-> 0]
    /\ applied = {}
    /\ fs_dirty = TRUE          \* ITree::create: the root is in memory
    /\ fs_root = NoRec
    /\ forest_dirty = TRUE
    /\ forest_val = NoRec
    /\ forest_root = NoRec
    /\ idml_dirty = FALSE
    /\ spc = "idle"
    /\ steps = <<>>
    /\ volatile = {}
    /\ media = {}
    /\ label_volatile = NoLabel
    /\ label_media = NoLabel

wvars == <<wpc, wtxg, wops>>
treevars == <<applied, fs_dirty, fs_root, forest_dirty, forest_val, forest_root,
              idml_dirty>>
devvars == <<volatile, media, label_volatile, label_media>>
lockvars == <<txg, txg_readers, txg_writer>>

\* ---- Database::fswrite
\* IDML::txg(): the read guard is granted when no writer holds the lock
fswrite_txg(w) ==
    /\ wpc[w] = "idle"
    /\ ~txg_writer
    /\ txg_readers' = txg_readers \cup {w}
    /\ wpc' = [wpc EXCEPT ![w] = "closure"]
    /\ UNCHANGED <<idmlvars, btvars, vbvars, concvars, crabvars, txg, txg_writer, wtxg, wops, treevars, spc, steps, devvars>>

\* the and_then closure: it reads *txg, builds the future
\* rw_filesystem(..).and_then(f) and returns it; its parameter, the guard, is
\* dropped as it returns
fswrite_closure(w) ==
    /\ wpc[w] = "closure"
    /\ wtxg' = [wtxg EXCEPT ![w] = txg]
    /\ txg_readers' = txg_readers \ {w}
    /\ wpc' = [wpc EXCEPT ![w] = "running"]
    /\ UNCHANGED <<idmlvars, btvars, vbvars, concvars, crabvars, txg, txg_writer, wops, treevars, spc, steps, devvars>>

\* one operation of f(ds) on the dataset, done with the txg it was handed
fswrite_op(w) ==
    /\ wpc[w] = "running"
    /\ wops[w] < OpsPerWrite
    /\ wops' = [wops EXCEPT ![w] = @ + 1]
    /\ applied' = applied \cup {<<w, wops[w] + 1>>}
    /\ fs_dirty' = TRUE
    /\ UNCHANGED <<idmlvars, btvars, vbvars, concvars, crabvars, lockvars, wpc, wtxg, fs_root, forest_dirty, forest_val,
                   forest_root, idml_dirty, spc, steps, devvars>>

\* the future returned by f completes
fswrite_done(w) ==
    /\ wpc[w] = "running"
    /\ wops[w] = OpsPerWrite
    /\ wpc' = [wpc EXCEPT ![w] = "done"]
    /\ UNCHANGED <<idmlvars, btvars, vbvars, concvars, crabvars, lockvars, wtxg, wops, treevars, spc, steps, devvars>>

\* a lock that would admit the writer while read guards are out
advance_transaction_lock_shared ==
    /\ spc = "idle"
    /\ txg < MaxTxg
    /\ ~txg_writer
    /\ txg_writer' = TRUE
    /\ spc' = "flush_fs"
    /\ steps' = <<>>
    /\ UNCHANGED <<idmlvars, btvars, vbvars, concvars, crabvars, txg, txg_readers, wvars, treevars, devvars>>

\* ---- Database::sync_transaction
\* IDML::advance_transaction: the write guard is granted when nobody holds
\* the lock; then the closure's future chain starts
advance_transaction_lock ==
    /\ spc = "idle"
    /\ txg < MaxTxg
    /\ ~txg_writer
    /\ txg_readers = {}
    /\ txg_writer' = TRUE
    /\ spc' = "flush_fs"
    /\ steps' = <<>>
    /\ UNCHANGED <<idmlvars, btvars, vbvars, concvars, crabvars, txg, txg_readers, wvars, treevars, devvars>>

\* join_all(fsfuts): itree.flush(txg), then forest.insert(tree_id, tod, txg)
flush_filesystems ==
    /\ spc = "flush_fs"
    /\ LET tod == IF fs_dirty THEN FsRec(txg, applied) ELSE fs_root
       IN /\ fs_root' = tod
          /\ fs_dirty' = FALSE
          /\ volatile' = IF fs_dirty THEN volatile \cup {tod} ELSE volatile
          /\ idml_dirty' = (idml_dirty \/ fs_dirty)
          /\ forest_val' = tod
          /\ forest_dirty' = TRUE
    /\ spc' = "sync1"
    /\ steps' = Append(steps, "flush_datasets")
    /\ UNCHANGED <<idmlvars, btvars, vbvars, concvars, crabvars, lockvars, wvars, applied, forest_root, media, label_volatile,
                   label_media>>

\* IDML::sync_all(txg) is ddml.sync_all(txg): everything written so far
\* reaches stable storage.  Neither the RIDT nor the AllocT is flushed.
DDML_sync_all ==
    /\ media' = media \cup volatile
    /\ volatile' = {}
    /\ label_media' = IF label_volatile.valid THEN label_volatile ELSE label_media
    /\ label_volatile' = NoLabel

sync_all_1 ==
    /\ spc = "sync1"
    /\ DDML_sync_all
    /\ spc' = "write_label"
    /\ steps' = Append(steps, "sync_all")
    /\ UNCHANGED <<idmlvars, btvars, vbvars, concvars, crabvars, lockvars, wvars, treevars>>

\* Inner::write_label: Tree::flush(forest, txg), then the Database label
\* (the forest's TreeOnDisk) and IDML::write_label go to the device
write_label ==
    /\ spc = "write_label"
    /\ LET tod == IF forest_dirty THEN ForestRec(txg, forest_val) ELSE forest_root
       IN /\ forest_root' = tod
          /\ forest_dirty' = FALSE
          /\ volatile' = IF forest_dirty THEN volatile \cup {tod} ELSE volatile
          /\ idml_dirty' = (idml_dirty \/ forest_dirty)
          /\ label_volatile' = [valid |-> TRUE, txg |-> txg, forest |-> tod,
                                fs |-> forest_val,
                                idml_flushed |-> ~(idml_dirty \/ forest_dirty)]
    /\ spc' = "sync2"
    /\ steps' = Append(steps, "write_label")
    /\ UNCHANGED <<idmlvars, btvars, vbvars, concvars, crabvars, lockvars, wvars, applied, fs_dirty, fs_root, forest_val, media,
                   label_media>>

sync_all_2 ==
    /\ spc = "sync2"
    /\ DDML_sync_all
    /\ spc' = "advance"
    /\ steps' = Append(steps, "sync_all")
    /\ UNCHANGED <<idmlvars, btvars, vbvars, concvars, crabvars, lockvars, wvars, treevars>>

\* advance_transaction's map: *txg_guard += 1, and the guard is dropped
advance_transaction_done ==
    /\ spc = "advance"
    /\ txg' = txg + 1
    /\ txg_writer' = FALSE
    /\ spc' = "idle"
    /\ UNCHANGED <<idmlvars, btvars, vbvars, concvars, crabvars, txg_readers, wvars, treevars, steps, devvars>>

\* ---- the device
\* the write-back cache destages a record, or the label, when it pleases
Destage(r) ==
    /\ r \in volatile
    /\ volatile' = volatile \ {r}
    /\ media' = media \cup {r}
    /\ UNCHANGED <<idmlvars, btvars, vbvars, concvars, crabvars, lockvars, wvars, treevars, spc, steps, label_volatile,
                   label_media>>

DestageLabel ==
    /\ label_volatile.valid
    /\ label_media' = label_volatile
    /\ label_volatile' = NoLabel
    /\ UNCHANGED <<idmlvars, btvars, vbvars, concvars, crabvars, lockvars, wvars, treevars, spc, steps, volatile, media>>

\* There is one label area, and a new label is written over the old one: while
\* the device is part-way through, neither label is whole
TearLabel ==
    /\ label_volatile.valid
    /\ label_media.valid
    /\ label_media' = NoLabel
    /\ UNCHANGED <<idmlvars, btvars, vbvars, concvars, crabvars, lockvars, wvars, treevars, spc, steps, volatile, media,
                   label_volatile>>

\* ==================================================================== Tree
\* The in-memory B+-tree.  A Node is a record: a leaf carries `items`, an
\* interior node `children`, a sequence of IntElems [key, mem, node] where mem
\* tells TreePtr::Mem from TreePtr::DRP (the node then is what was written).
\* Operators that descend return [node, ret, panic]: the node as it is left,
\* the value returned, and the message of the panic if there was one.
min_fanout == 2
max_fanout == 5
min_value == 0

BtKeys == 0 .. (NumKeys - 1)
\* keys below NumRewritten are inserted with any value, the others with one
BtVals(k) == IF k < NumRewritten THEN Vals ELSE {1}

BtNone == [some |-> FALSE, val |-> 0]
BtSome(v) == [some |-> TRUE, val |-> v]
LeafNode(items) == [int |-> FALSE, items |-> items, children |-> <<>>]
IntNode(children) == [int |-> TRUE, items |-> EmptyMap, children |-> children]
IntElem(k, n) == [key |-> k, mem |-> TRUE, node |-> n]
BtR(n, ret, why) == [node |-> n, ret |-> ret, panic |-> why]
Unimplemented == "not yet implemented"

InsertAt(seq, i, x) == SubSeq(seq, 1, i - 1) \o <<x>> \o SubSeq(seq, i, Len(seq))
RemoveAt(seq, i) == SubSeq(seq, 1, i - 1) \o SubSeq(seq, i + 1, Len(seq))
Restrict(f, S) == [x \in S |-> f[x]]
\* keys().nth(i), counted from 0
nth(S, i) == CHOOSE k \in S : Cardinality({j \in S : j < k}) = i
div_roundup(a, b) == (a + b - 1) \div b

node_len(n) == IF n.int THEN Len(n.children) ELSE Cardinality(DOMAIN n.items)
node_key(n) == IF n.int THEN n.children[1].key ELSE Min(DOMAIN n.items)
can_merge(a, b) == node_len(a) + node_len(b) <= max_fanout
\* a fix that waits until the node is underfull
should_fix_late(n) == node_len(n) < min_fanout
should_fix(n) == node_len(n) <= min_fanout
should_split(n) == node_len(n) >= max_fanout

\* LeafNode::lookup
leaf_lookup(n, k) ==
    IF k \in DOMAIN n.items THEN BtSome(n.items[k]) ELSE BtNone

\* a search that would stop left of a child whose key is k itself
position_strict(n, k) ==
    LET lt == {i \in 1 .. Len(n.children) : n.children[i].key < k}
    IN IF lt = {} THEN 1 ELSE CHOOSE i \in lt : \A j \in lt : j <= i

\* IntNode::position: the rightmost child whose key is less than or equal to
\* k, as an index from 1; 0 stands for the subtraction that would overflow
position(n, k) ==
    LET le == {i \in 1 .. Len(n.children) : n.children[i].key <= k}
    IN IF le = {} THEN 0 ELSE CHOOSE i \in le : \A j \in le : j <= i

\* Node::split: [left, key, right]
leaf_split(n) ==
    LET cutoff == nth(DOMAIN n.items, div_roundup(node_len(n), 2))
    IN [left |-> LeafNode(Restrict(n.items, {x \in DOMAIN n.items : x < cutoff})),
        key |-> cutoff,
        right |-> LeafNode(Restrict(n.items, {x \in DOMAIN n.items : x >= cutoff}))]

int_split(n) ==
    LET cutoff == div_roundup(node_len(n), 2)
    IN [left |-> IntNode(SubSeq(n.children, 1, cutoff)),
        key |-> n.children[cutoff + 1].key,
        right |-> IntNode(SubSeq(n.children, cutoff + 1, Len(n.children)))]

split(n) == IF n.int THEN int_split(n) ELSE leaf_split(n)

\* Node::merge: all of other's data goes into self
merge(self, other) ==
    IF self.int THEN IntNode(self.children \o other.children)
    ELSE LeafNode([x \in DOMAIN self.items \cup DOMAIN other.items |->
                     IF x \in DOMAIN other.items THEN other.items[x]
                     ELSE self.items[x]])

keys_to_share(self, other) == (node_len(other) - node_len(self)) \div 2

\* Node::take_low_keys: [self, other] as they are left
int_take_low(self, other, n) ==
    [self |-> IntNode(self.children \o SubSeq(other.children, 1, n)),
     other |-> IntNode(SubSeq(other.children, n + 1, Len(other.children)))]

leaf_take_low(self, other, cutoff) ==
    [self |-> merge(self, LeafNode(Restrict(other.items,
                                   {x \in DOMAIN other.items : x < cutoff}))),
     other |-> LeafNode(Restrict(other.items,
                                 {x \in DOMAIN other.items : x >= cutoff}))]

take_low_keys(self, other) ==
    IF self.int THEN int_take_low(self, other, keys_to_share(self, other))
    ELSE leaf_take_low(self, other,
                       nth(DOMAIN other.items, keys_to_share(self, other)))

\* Node::take_high_keys
int_take_high(self, other, cutoff_idx) ==
    [self |-> IntNode(SubSeq(other.children, cutoff_idx + 1, Len(other.children))
                        \o self.children),
     other |-> IntNode(SubSeq(other.children, 1, cutoff_idx))]

leaf_take_high(self, other, cutoff) ==
    [self |-> merge(self, LeafNode(Restrict(other.items,
                                   {x \in DOMAIN other.items : x >= cutoff}))),
     other |-> LeafNode(Restrict(other.items,
                                 {x \in DOMAIN other.items : x < cutoff}))]

take_high_keys(self, other) ==
    IF self.int
    THEN int_take_high(self, other,
                       node_len(other) - keys_to_share(self, other))
    ELSE leaf_take_high(self, other,
            nth(DOMAIN other.items, node_len(other) - keys_to_share(self, other)))

\* the result of a descent into child idx, stored back into its parent
put_child(parent, idx, r) ==
    BtR([parent EXCEPT !.children[idx].node = r.node], r.ret, r.panic)

\* ---- insert
\* insert_int's first branch: the child is split and its right half becomes
\* the parent's child idx + 1
split_child(parent, idx, s) ==
    IntNode(InsertAt([parent.children EXCEPT ![idx].node = s.left],
                     idx + 1, IntElem(s.key, s.right)))

RECURSIVE insert_no_split(_, _, _)
insert_int(parent, idx, k, v) ==
    IF node_len(parent.children[idx].node) > max_fanout
    THEN BtR(parent, BtNone, "Overfull nodes shouldn't be possible")
    ELSE IF should_split(parent.children[idx].node)
    THEN insert_no_split(split_child(parent, idx,
                                     split(parent.children[idx].node)), k, v)
    ELSE put_child(parent, idx,
                   insert_no_split(parent.children[idx].node, k, v))

\* the child is locked with xlock, which cannot read a node back from disk
insert_xlock(node, idx, k, v) ==
    IF idx = 0 THEN BtR(node, BtNone, "attempt to subtract with overflow")
    ELSE IF ~node.children[idx].mem THEN BtR(node, BtNone, Unimplemented)
    ELSE insert_int(node, idx, k, v)

insert_no_split(node, k, v) ==
    IF ~node.int
    THEN BtR(LeafNode(MapPut(node.items, k, v)), leaf_lookup(node, k), "")
    ELSE insert_xlock(node, position(node, k), k, v)

\* the root is split under a new root, whose first child has the least key
split_root(s) ==
    IntNode(<<IntElem(min_value, s.left), IntElem(s.key, s.right)>>)

\* insert_locked: [node, ret, panic, height]
insert_locked(root, height, k, v) ==
    IF node_len(root) > max_fanout
    THEN [node |-> root, ret |-> BtNone, height |-> height,
          panic |-> "Overfull nodes shouldn't be possible"]
    ELSE IF should_split(root)
    THEN [height |-> height + 1] @@ insert_no_split(split_root(split(root)), k, v)
    ELSE [height |-> height] @@ insert_no_split(root, k, v)

\* ---- lookup
RECURSIVE lookup_node(_, _)
lookup_rlock(node, idx, k) ==
    IF idx = 0 THEN BtR(node, BtNone, "attempt to subtract with overflow")
    ELSE IF ~node.children[idx].mem THEN BtR(node, BtNone, Unimplemented)
    ELSE lookup_node(node.children[idx].node, k)

lookup_node(node, k) ==
    IF ~node.int THEN BtR(node, leaf_lookup(node, k), "")
    ELSE lookup_rlock(node, position(node, k), k)

\* ---- remove
\* remove_int's fixes of the child idx, with the sibling already locked
fix_right_merge(parent, idx) ==
    IntNode(RemoveAt([parent.children EXCEPT ![idx].node =
                         merge(parent.children[idx].node,
                               parent.children[idx + 1].node)], idx + 1))

fix_right_steal(parent, idx, t) ==
    IntNode([parent.children EXCEPT ![idx].node = t.self,
                                    ![idx + 1].node = t.other,
                                    ![idx + 1].key = node_key(t.other)])

fix_left_merge(parent, idx) ==
    IntNode(RemoveAt([parent.children EXCEPT ![idx - 1].node =
                         merge(parent.children[idx - 1].node,
                               parent.children[idx].node)], idx))

fix_left_steal(parent, idx, t) ==
    IntNode([parent.children EXCEPT ![idx].node = t.self,
                                    ![idx].key = node_key(t.self),
                                    ![idx - 1].node = t.other])

fix_right(parent, idx) ==
    IF ~parent.children[idx + 1].mem THEN BtR(parent, BtNone, Unimplemented)
    ELSE IF can_merge(parent.children[idx].node, parent.children[idx + 1].node)
    THEN BtR(fix_right_merge(parent, idx), BtNone, "")
    ELSE BtR(fix_right_steal(parent, idx,
                take_low_keys(parent.children[idx].node,
                              parent.children[idx + 1].node)), BtNone, "")

fix_left(parent, idx) ==
    IF idx = 1 THEN BtR(parent, BtNone, "attempt to subtract with overflow")
    ELSE IF ~parent.children[idx - 1].mem THEN BtR(parent, BtNone, Unimplemented)
    ELSE IF can_merge(parent.children[idx - 1].node, parent.children[idx].node)
    THEN BtR(fix_left_merge(parent, idx), BtNone, "")
    ELSE BtR(fix_left_steal(parent, idx,
                take_high_keys(parent.children[idx].node,
                               parent.children[idx - 1].node)), BtNone, "")

\* a fix that turns to the left sibling whenever there is one
fix_prefer_left(parent, idx) ==
    IF idx > 1 THEN fix_left(parent, idx) ELSE fix_right(parent, idx)

fix(parent, idx) ==
    IF idx < Len(parent.children) THEN fix_right(parent, idx)
    ELSE fix_left(parent, idx)

RECURSIVE remove_no_fix(_, _)
remove_fixed(f, k) == IF f.panic # "" THEN f ELSE remove_no_fix(f.node, k)

remove_int(parent, idx, k) ==
    IF node_len(parent.children[idx].node) < min_fanout
    THEN BtR(parent, BtNone, "Underfull nodes shouldn't be possible")
    ELSE IF should_fix(parent.children[idx].node)
    THEN remove_fixed(fix(parent, idx), k)
    ELSE put_child(parent, idx, remove_no_fix(parent.children[idx].node, k))

remove_xlock(node, idx, k) ==
    IF idx = 0 THEN BtR(node, BtNone, "attempt to subtract with overflow")
    ELSE IF ~node.children[idx].mem THEN BtR(node, BtNone, Unimplemented)
    ELSE remove_int(node, idx, k)

remove_no_fix(node, k) ==
    IF ~node.int
    THEN BtR(LeafNode(MapDel(node.items, k)), leaf_lookup(node, k), "")
    ELSE remove_xlock(node, position(node, k), k)

\* a root merge that would forget the height
remove_locked_keepheight(root, height, k) ==
    IF root.int /\ Len(root.children) = 1
    THEN IF root.children[1].mem
         THEN [height |-> height] @@ remove_no_fix(root.children[1].node, k)
         ELSE [node |-> root, ret |-> BtNone, height |-> height,
               panic |-> Unimplemented]
    ELSE [height |-> height] @@ remove_no_fix(root, k)

\* remove_locked: a root with a single child is merged with it first
remove_locked(root, height, k) ==
    IF root.int /\ Len(root.children) = 1
    THEN IF root.children[1].mem
         THEN [height |-> height - 1] @@ remove_no_fix(root.children[1].node, k)
         ELSE [node |-> root, ret |-> BtNone, height |-> height,
               panic |-> Unimplemented]
    ELSE [height |-> height] @@ remove_no_fix(root, k)

\* ---- sync_all
\* write_node: every dirty child is written, children first, and the pointer
\* to it becomes a DRP; then the node itself is put.  The node as it is left:
RECURSIVE write_node(_)
write_child(e) ==
    IF e.mem THEN [e EXCEPT !.mem = FALSE, !.node = write_node(e.node)] ELSE e

write_node(node) ==
    IF ~node.int THEN node
    ELSE IntNode([i \in 1 .. Len(node.children) |-> write_child(node.children[i])])

\* what write_node hands to ddml.put, in order: the dirty children's writes,
\* each followed by the child's pointer becoming a DRP, and then the node as
\* it is serialized after all of them.  Siblings are written in index order.
RECURSIVE write_log(_), children_log(_, _)
children_log(children, i) ==
    IF i > Len(children) THEN <<>>
    ELSE (IF children[i].mem THEN write_log(children[i].node) ELSE <<>>)
           \o children_log(children, i + 1)

\* a write_node that serializes the node before its children are written
write_log_early(node) ==
    IF ~node.int THEN <<node>>
    ELSE <<node>> \o children_log(node.children, 1)

write_log(node) ==
    IF ~node.int THEN <<node>>
    ELSE children_log(node.children, 1) \o <<write_node(node)>>

\* ---- what a tree holds
RECURSIVE leaf_depths(_), tree_items(_), dirty_ptrs(_), all_mem(_)
leaf_depths(n) ==
    IF ~n.int THEN {1}
    ELSE UNION {{d + 1 : d \in leaf_depths(n.children[i].node)} :
                  i \in 1 .. Len(n.children)}

tree_items(n) ==
    IF ~n.int THEN {<<k, n.items[k]>> : k \in DOMAIN n.items}
    ELSE UNION {tree_items(n.children[i].node) : i \in 1 .. Len(n.children)}

\* how many TreePtr::Mem are reachable below n
dirty_ptrs(n) ==
    IF ~n.int THEN {}
    ELSE UNION {(IF n.children[i].mem THEN {<<i>>} ELSE {})
                  \cup {<<i>> \o p : p \in dirty_ptrs(n.children[i].node)} :
                     i \in 1 .. Len(n.children)}

\* no node below n has been written out
all_mem(n) ==
    ~n.int \/ \A i \in 1 .. Len(n.children) :
                 n.children[i].mem /\ all_mem(n.children[i].node)

BtInit ==
    /\ bt_root = LeafNode(EmptyMap)
    /\ bt_root_mem = TRUE
    /\ bt_height = 1
    /\ bt_panic = ""
    /\ bt_last = [op |-> "none", ret |-> BtNone]
    /\ bt_map = EmptyMap
    /\ bt_writes = <<>>

BtDone(op, r) ==
    /\ bt_root' = r.node
    /\ bt_height' = r.height
    /\ bt_panic' = r.panic
    /\ bt_last' = [op |-> op, ret |-> r.ret]
    /\ bt_writes' = <<>>
    /\ UNCHANGED <<bt_root_mem, idmlvars, dbvars, vbvars, concvars, crabvars>>

\* Tree::insert
BtInsert(k, v) ==
    /\ bt_panic = ""
    /\ BtDone("insert", insert_locked(bt_root, bt_height, k, v))
    /\ bt_map' = IF bt_panic' = "" THEN MapPut(bt_map, k, v) ELSE bt_map

\* Tree::remove
BtRemove(k) ==
    /\ bt_panic = ""
    /\ BtDone("remove", remove_locked(bt_root, bt_height, k))
    /\ bt_map' = IF bt_panic' = "" THEN MapDel(bt_map, k) ELSE bt_map

\* Tree::lookup
BtLookup(k) ==
    /\ bt_panic = ""
    /\ bt_panic' = lookup_node(bt_root, k).panic
    /\ UNCHANGED <<bt_root, bt_root_mem, bt_height, bt_last, bt_map, bt_writes,
                   idmlvars, dbvars, vbvars, concvars, crabvars>>

\* Tree::sync_all: write_node(root), whose DRP is dropped, then ddml.sync_all
BtSyncAll ==
    /\ bt_panic = ""
    /\ bt_root' = write_node(bt_root)
    /\ bt_last' = [op |-> "sync_all", ret |-> BtNone]
    /\ bt_writes' = write_log(bt_root)
    /\ UNCHANGED <<bt_root_mem, bt_height, bt_panic, bt_map, idmlvars, dbvars, vbvars, concvars, crabvars>>

\* ==================================================== IDML, step by step
\* Each future of an operation is a step of its own: ridt.get resolves, and
\* the closure chained to it runs later with the entry it was handed.
Tasks == 1 .. NumTasks
NoEntry == [pba |-> 0, refcount |-> 0]
Idle == [op |-> "idle", pc |-> "", rid |-> 0, entry |-> NoEntry, cursor |-> 0,
         zone |-> 0]
Quiescent == \A t \in Tasks : tk[t] = Idle
\* a new operation is spawned into the first free slot
Spawned(t) == tk[t] = Idle /\ \A u \in 1 .. (t - 1) : tk[u] # Idle

\* the holder of a read guard of the txg lock that is task t
Task(t) == <<"task", t>>
\* a caller that reads the txg and keeps no guard
txg_read_none(readers, t) == readers
\* IDML::txg: a read guard of the transaction lock
txg_read(readers, t) == readers \cup {Task(t)}
\* the guard is dropped
txg_drop(readers, t) == readers \ {Task(t)}

\* IDML::delete, the closure chained to ridt.get
delete_closure(s, rid, entry) ==
    IF entry.refcount - 1 = 0
    THEN remove_last(DDML_delete([s EXCEPT !.cache = MapDel(@, KeyRid(rid))],
                                 entry.pba),
                     rid, entry.pba)
    ELSE [s EXCEPT !.ridt = MapPut(@, rid, [entry EXCEPT !.refcount = @ - 1])]

\* IDML::pop, the closure chained to ridt.get
pop_closure(s, rid, entry) ==
    IF entry.refcount - 1 = 0
    THEN IF KeyRid(rid) \in DOMAIN s.cache
         THEN remove_last(DDML_delete([s EXCEPT !.cache = MapDel(@, KeyRid(rid))],
                                      entry.pba),
                          rid, entry.pba)
         ELSE remove_last(DDML_pop(s, entry.pba).st, rid, entry.pba)
    ELSE [(IF KeyRid(rid) \in DOMAIN s.cache THEN s
           ELSE DDML_get(s, entry.pba).st)
            EXCEPT !.ridt = MapPut(@, rid, [entry EXCEPT !.refcount = @ - 1])]

\* IDML::get on a cache miss, the closures chained to ridt.get
get_closure(s, rid, entry) == get_cache(DDML_get(s, entry.pba), rid).st

\* IDML::move_record, the closure chained to ridt.get: the table updates
move_closure_insert(s, rid, entry, pba) ==
    IF s.panic # "" THEN s
    ELSE [s EXCEPT !.ridt = MapPut(@, rid, [entry EXCEPT !.pba = pba]),
                   !.alloct = MapPut(@, pba, rid),
                   !.dests = Append(@, pba)]

\* after put_direct: delete_direct of the DRP that ridt.get returned
move_closure_delete(w, rid, entry) ==
    IF w.st.panic # "" THEN w.st
    ELSE move_closure_insert(DDML_delete(w.st, entry.pba), rid, entry, w.pba)

move_closure_put(g, rid, entry) ==
    move_closure_delete(DDML_put(g.st, g.val), rid, entry)

move_closure(s, rid, entry) ==
    IF KeyRid(rid) \in DOMAIN s.cache
    THEN move_closure_put([st |-> s, val |-> s.cache[KeyRid(rid)]], rid, entry)
    ELSE move_closure_put(DDML_get(s, entry.pba), rid, entry)

ConcInit ==
    /\ tk = [t \in Tasks |-> Idle]

\* a step of task t leaves the state s, the task as k, and the read guards of
\* the txg lock as tr
Stepped(t, s, k, tr) ==
    /\ zones' = s.zones
    /\ empty_zones' = s.empty_zones
    /\ open_zones' = s.open_zones
    /\ disk' = s.disk
    /\ cache' = s.cache
    /\ ridt' = s.ridt
    /\ alloct' = s.alloct
    /\ next_rid' = s.next_rid
    /\ panic' = s.panic
    /\ tk' = [tk EXCEPT ![t] = k]
    /\ txg_readers' = tr
    /\ UNCHANGED <<last, contents, txg, txg_writer, wvars, treevars, spc, steps,
                   devvars, btvars, vbvars, crabvars>>

\* the future of the operation resolves; the caller drops its guard
Finished(t, s) ==
    Stepped(t, s, IF s.panic = "" THEN Idle ELSE tk[t], txg_drop(txg_readers, t))

\* a caller that holds a reference gives it up: delete(rid, *txg) or
\* pop(rid, *txg) under a read guard of the transaction lock
StartDelete(t, op, rid) ==
    /\ panic = "" /\ Spawned(t)
    /\ rid \in DOMAIN refs /\ refs[rid] > 0
    /\ refs' = [refs EXCEPT ![rid] = @ - 1]
    /\ Stepped(t, Cur, [Idle EXCEPT !.op = op, !.pc = "ridt_get", !.rid = rid],
               txg_read(txg_readers, t))

\* get(rid) that misses the cache
StartGet(t, rid) ==
    /\ panic = "" /\ Spawned(t)
    /\ rid \in DOMAIN refs /\ refs[rid] > 0
    /\ KeyRid(rid) \notin DOMAIN cache
    /\ Stepped(t, Cur, [Idle EXCEPT !.op = "get", !.pc = "ridt_get", !.rid = rid],
               txg_readers)
    /\ UNCHANGED refs

\* the caller of clean_zone, as in the test move_last_record: the read guard
\* is moved into the closure that runs clean_zone(cz, *txg)
StartClean(t, z) ==
    /\ panic = "" /\ Spawned(t)
    /\ z \in closed_zones(Cur)
    /\ \A u \in Tasks : tk[u].op # "clean_zone"
    /\ Stepped(t, Cur, [Idle EXCEPT !.op = "clean_zone", !.pc = "next",
                                     !.zone = z, !.cursor = zone_limits(z)[1]],
               txg_read(txg_readers, t))
    /\ UNCHANGED refs

\* list_indirect_records yields the next record of the zone, or ends
CleanNext(t) ==
    /\ panic = "" /\ tk[t].op = "clean_zone" /\ tk[t].pc = "next"
    /\ Stepped(t, Cur,
          IF alloct_range(Cur, tk[t].cursor, zone_end(Cur, tk[t].zone)) = {}
          THEN [tk[t] EXCEPT !.pc = "range_delete"]
          ELSE [tk[t] EXCEPT
                  !.pc = "ridt_get",
                  !.rid = alloct[Min(alloct_range(Cur, tk[t].cursor,
                                                  zone_end(Cur, tk[t].zone)))],
                  !.cursor = Min(alloct_range(Cur, tk[t].cursor,
                                              zone_end(Cur, tk[t].zone))) + 1],
          txg_readers)
    /\ UNCHANGED refs

\* trees.ridt.get(rid) resolves
RidtGet(t) ==
    /\ panic = "" /\ tk[t].pc = "ridt_get"
    /\ IF tk[t].rid \in DOMAIN ridt
       THEN Stepped(t, Cur, [tk[t] EXCEPT !.pc = "closure",
                                          !.entry = ridt[tk[t].rid]],
                    txg_readers)
       ELSE IF tk[t].op = "clean_zone"
       THEN Stepped(t, Panic(Cur, "Inconsistency in alloct.  Entry not found in RIDT"),
                    tk[t], txg_readers)
       ELSE Finished(t, Cur)
    /\ UNCHANGED refs

\* the closure runs with the entry that ridt.get handed it
Closure(t) ==
    /\ panic = "" /\ tk[t].pc = "closure"
    /\ IF tk[t].op = "delete"
       THEN Finished(t, delete_closure(Cur, tk[t].rid, tk[t].entry))
       ELSE IF tk[t].op = "pop"
       THEN Finished(t, pop_closure(Cur, tk[t].rid, tk[t].entry))
       ELSE IF tk[t].op = "get"
       THEN Finished(t, get_closure(Cur, tk[t].rid, tk[t].entry))
       ELSE Stepped(t, move_closure(Cur, tk[t].rid, tk[t].entry),
                    [tk[t] EXCEPT !.pc = "next", !.rid = 0, !.entry = NoEntry],
                    txg_readers)
    /\ UNCHANGED refs

\* clean_zone, after the last record: alloct.range_delete
CleanRangeDelete(t) ==
    /\ panic = "" /\ tk[t].op = "clean_zone" /\ tk[t].pc = "range_delete"
    /\ Finished(t, clean_range(Cur, zone_limits(tk[t].zone)[1],
                               zone_end(Cur, tk[t].zone)))
    /\ UNCHANGED refs

\* IDML::advance_transaction: the write guard is granted once no reader is left
AdvanceTransaction ==
    /\ panic = ""
    /\ ~txg_writer /\ txg_readers = {}
    /\ txg < MaxAdvance
    /\ txg' = txg + 1
    /\ UNCHANGED <<idmlvars, btvars, vbvars, concvars, crabvars, txg_readers, txg_writer,
                   wvars, treevars, spc, steps, devvars>>

\* ================================================================ VdevBlock
\* MAX_QUEUE_DEPTH is 10 in the code
MAX_QUEUE_DEPTH == 1
\* LbaT is u64 in the code
LbaModulus == 2 ^ LbaBits
VbLbas == 0 .. (LbaModulus - 3)

wrapping_sub(a, b) == (a - b) % LbaModulus

\* VdevBlock::priority
priority(last_lba, lba) == wrapping_sub(last_lba, lba + 1)

BlockOp(id, lba, pri) == [id |-> id, lba |-> lba, priority |-> pri]

VbCur == [queue |-> vb_queue, depth |-> vb_depth, last_lba |-> vb_last_lba,
          inflight |-> vb_inflight, issued |-> vb_issued]

\* BinaryHeap::pop: an op of the greatest priority; which one of several of
\* the same priority is not specified
pop(queue) == {o \in queue : \A q \in queue : q.priority <= o.priority}

\* Inner::issue_one
issue_one(v, op) ==
    [v EXCEPT !.queue = @ \ {op},
              !.last_lba = op.lba,
              !.depth = @ + 1,
              !.inflight = @ \cup {op.id},
              !.issued = Append(@, op.lba)]

RECURSIVE issue_all(_)
\* Inner::issue_all: the states it may leave
issue_all(v) ==
    IF v.depth < MAX_QUEUE_DEPTH /\ v.queue # {}
    THEN UNION {issue_all(issue_one(v, op)) : op \in pop(v.queue)}
    ELSE {v}

\* Inner::sched
sched(v, op) == issue_all([v EXCEPT !.queue = @ \cup {op}])

\* leaf_op!: the continuation that runs when the leaf completes the operation
\* successfully; an error skips it
leaf_op_done(v, id, ok) ==
    IF ok THEN issue_all([v EXCEPT !.inflight = @ \ {id}, !.depth = @ - 1])
    ELSE {[v EXCEPT !.inflight = @ \ {id}]}

VbInit ==
    /\ vb_queue = {}
    /\ vb_depth = 0
    /\ vb_last_lba = 0
    /\ vb_inflight = {}
    /\ vb_issued = <<>>
    /\ vb_subs = <<>>
    /\ vb_resolved = {}

VbCommit(v) ==
    /\ vb_queue' = v.queue
    /\ vb_depth' = v.depth
    /\ vb_last_lba' = v.last_lba
    /\ vb_inflight' = v.inflight
    /\ vb_issued' = v.issued
    /\ UNCHANGED <<idmlvars, dbvars, btvars, concvars, crabvars>>

\* VdevBlock::write_at (read_at, readv_at and writev_at schedule alike)
VbSubmit(lba) ==
    /\ Len(vb_subs) < MaxOps
    /\ \E v \in sched(VbCur, BlockOp(Len(vb_subs) + 1, lba,
                                      priority(vb_last_lba, lba))) : VbCommit(v)
    /\ vb_subs' = Append(vb_subs, lba)
    /\ UNCHANGED vb_resolved

\* the leaf device completes an operation: the oneshot is sent on success and
\* dropped on error, and either resolves the future that the caller holds
VbComplete(id, ok) ==
    /\ id \in vb_inflight
    /\ \E v \in leaf_op_done(VbCur, id, ok) : VbCommit(v)
    /\ vb_resolved' = vb_resolved \cup {id}
    /\ UNCHANGED vb_subs

\* ====================================================== Tree, lock by lock
\* insert, remove and lookup as the chains of futures that tree.rs builds:
\* a step is the closure that runs once the lock that the operation waits
\* for has been granted, up to the next lock that it asks for.  Guards are
\* dropped where the code drops them.
NumNodes == 9
MaxTreeOps == 3
NodeIds == 0 .. (NumNodes - 1)
\* the keys that the concurrent operations work on
CrabKeys == {4, 6, 10}
NoId == NumNodes
Elem(k, id) == [key |-> k, id |-> id]
Ones(S) == [x \in S |-> 1]
NoNode == LeafNode(EmptyMap)
TqIdle == [op |-> "idle", k |-> 0, pc |-> "", node |-> NoId, child |-> NoId,
           sib |-> NoId, idx |-> 0, held |-> {}]

ChildIds(n) == {n.children[i].id : i \in 1 .. Len(n.children)}

RECURSIVE Below(_, _)
\* the nodes of the subtree of node id
Below(h, id) == {id} \cup UNION {Below(h, c) : c \in ChildIds(h[id])}

\* the nodes that a guard or a lock future of some task keeps alive
Refs(q) == UNION {{q[t].node, q[t].child, q[t].sib} : t \in Tasks} \ {NoId}
Fresh(h, q) == NodeIds \ (Below(h, 0) \cup Refs(q))
\* a node goes when the last reference to it goes
Gc(h, q) ==
    [i \in NodeIds |-> IF i \in Below(h, 0) \cup Refs(q) THEN h[i] ELSE NoNode]

\* what Node::merge leaves of the node it took everything from
Emptied(n) == IF n.int THEN IntNode(<<>>) ELSE LeafNode(EmptyMap)

CrabCur == [heap |-> tc_heap, height |-> tc_height, keys |-> tc_keys,
            panic |-> tc_panic]
CrabR(c, task, ret) == [c |-> c, task |-> task, ret |-> ret]
CrabPanic(c, t, why) == CrabR([c EXCEPT !.panic = why], t, BtNone)

\* the guard of node n is kept and the lock of its child idx is asked for
Await(c, t, n, idx) ==
    [t EXCEPT !.pc = "child", !.node = n, !.idx = idx, !.sib = NoId,
              !.child = c.heap[n].children[idx].id, !.held = {n}]

\* ---- insert
\* Tree::insert_no_split on the locked node n
crab_insert_no_split(c, t, n) ==
    IF ~c.heap[n].int
    THEN CrabR([c EXCEPT !.heap[n] = LeafNode(MapPut(@.items, t.k, 1)),
                         !.keys = @ \cup {t.k}],
               TqIdle, leaf_lookup(c.heap[n], t.k))
    ELSE IF position(c.heap[n], t.k) = 0
    THEN CrabPanic(c, t, "attempt to subtract with overflow")
    ELSE CrabR(c, Await(c, t, n, position(c.heap[n], t.k)), BtNone)

\* an insert_int that would let go of the parent whatever the child holds
crab_insert_int_released(c, t, fresh) ==
    crab_insert_no_split(c, t, t.child)

\* Tree::insert_int: parent t.node and child t.child are locked
crab_insert_int(c, t, fresh) ==
    IF node_len(c.heap[t.child]) > max_fanout
    THEN CrabPanic(c, t, "Overfull nodes shouldn't be possible")
    ELSE IF should_split(c.heap[t.child])
    THEN LET s == split(c.heap[t.child])
             new == Min(fresh)
         IN crab_insert_no_split(
                [c EXCEPT !.heap = [@ EXCEPT
                     ![t.child] = s.left,
                     ![new] = s.right,
                     ![t.node] = IntNode(InsertAt(@.children, t.idx + 1,
                                                  Elem(s.key, new)))]],
                t, t.node)
    ELSE crab_insert_no_split(c, t, t.child)

\* Tree::insert_locked: the root is locked
crab_insert_locked(c, t, fresh) ==
    IF node_len(c.heap[0]) > max_fanout
    THEN CrabPanic(c, t, "Overfull nodes shouldn't be possible")
    ELSE IF should_split(c.heap[0])
    THEN LET s == split(c.heap[0])
             new == Min(fresh)
             old == Min(fresh \ {new})
         IN crab_insert_no_split(
                [c EXCEPT !.heap = [@ EXCEPT
                     ![new] = s.right,
                     ![old] = s.left,
                     ![0] = IntNode(<<Elem(min_value, old), Elem(s.key, new)>>)],
                          !.height = @ + 1],
                t, 0)
    ELSE crab_insert_no_split(c, t, 0)

\* ---- remove
\* Tree::remove_no_fix on the locked node n
crab_remove_no_fix(c, t, n) ==
    IF ~c.heap[n].int
    THEN CrabR([c EXCEPT !.heap[n] = LeafNode(MapDel(@.items, t.k)),
                         !.keys = @ \ {t.k}],
               TqIdle, leaf_lookup(c.heap[n], t.k))
    ELSE IF position(c.heap[n], t.k) = 0
    THEN CrabPanic(c, t, "attempt to subtract with overflow")
    ELSE CrabR(c, Await(c, t, n, position(c.heap[n], t.k)), BtNone)

\* the sibling whose lock remove_int asks for: the right one, or the left
\* one if the child is the last
sibling_idx(parent, idx) ==
    IF idx < Len(parent.children) THEN idx + 1 ELSE idx - 1

\* a remove_int that would let go of the parent before it asks for the
\* sibling's lock
crab_remove_int_unparented(c, t) ==
    IF should_fix(c.heap[t.child])
    THEN IF sibling_idx(c.heap[t.node], t.idx) = 0
         THEN CrabPanic(c, t, "attempt to subtract with overflow")
         ELSE CrabR(c, [t EXCEPT !.pc = "sibling", !.held = {t.child},
                          !.sib = c.heap[t.node].children[
                                     sibling_idx(c.heap[t.node], t.idx)].id],
                    BtNone)
    ELSE crab_remove_no_fix(c, t, t.child)

\* Tree::remove_int up to the sibling's lock: parent t.node and child
\* t.child are locked
crab_remove_int(c, t) ==
    IF node_len(c.heap[t.child]) < min_fanout
    THEN CrabPanic(c, t, "Underfull nodes shouldn't be possible")
    ELSE IF should_fix(c.heap[t.child])
    THEN IF sibling_idx(c.heap[t.node], t.idx) = 0
         THEN CrabPanic(c, t, "attempt to subtract with overflow")
         ELSE CrabR(c, [t EXCEPT !.pc = "sibling", !.held = {t.node, t.child},
                          !.sib = c.heap[t.node].children[
                                     sibling_idx(c.heap[t.node], t.idx)].id],
                    BtNone)
    ELSE crab_remove_no_fix(c, t, t.child)

\* the heap after remove_int's closure on the locked sibling
fix_heap(h, p, idx, ch, sib) ==
    IF idx < Len(h[p].children)
    THEN IF can_merge(h[ch], h[sib])
         THEN [h EXCEPT ![ch] = merge(h[ch], h[sib]),
                        ![sib] = Emptied(h[sib]),
                        ![p] = IntNode(RemoveAt(@.children, idx + 1))]
         ELSE LET tl == take_low_keys(h[ch], h[sib])
              IN [h EXCEPT ![ch] = tl.self,
                           ![sib] = tl.other,
                           ![p] = IntNode([@.children EXCEPT
                                      ![idx + 1].key = node_key(tl.other)])]
    ELSE IF can_merge(h[sib], h[ch])
         THEN [h EXCEPT ![sib] = merge(h[sib], h[ch]),
                        ![ch] = Emptied(h[ch]),
                        ![p] = IntNode(RemoveAt(@.children, idx))]
         ELSE LET th == take_high_keys(h[ch], h[sib])
              IN [h EXCEPT ![ch] = th.self,
                           ![sib] = th.other,
                           ![p] = IntNode([@.children EXCEPT
                                      ![idx].key = node_key(th.self)])]

\* Tree::remove_int from the sibling's lock on: the child is fixed, the
\* parent is updated and the descent starts over from the parent
crab_remove_fix(c, t) ==
    crab_remove_no_fix(
        [c EXCEPT !.heap = fix_heap(@, t.node, t.idx, t.child, t.sib)],
        t, t.node)

\* Tree::remove_locked: a root with a single child takes the child's place;
\* try_unwrap fails if anything else refers to the child's lock
crab_remove_locked(c, t, others) ==
    IF c.heap[0].int /\ Len(c.heap[0].children) = 1
    THEN IF c.heap[0].children[1].id \in others
         THEN CrabPanic(c, t, "called Result::unwrap() on an Err value")
         ELSE crab_remove_no_fix(
                 [c EXCEPT !.heap = [@ EXCEPT
                              ![0] = c.heap[c.heap[0].children[1].id],
                              ![c.heap[0].children[1].id] = NoNode],
                           !.height = @ - 1],
                 t, 0)
    ELSE crab_remove_no_fix(c, t, 0)

\* ---- lookup
\* Tree::lookup_node on the read-locked node n: the future of the child's
\* lock is made and the guard of n is dropped
crab_lookup_node(c, t, n) ==
    IF ~c.heap[n].int THEN CrabR(c, TqIdle, leaf_lookup(c.heap[n], t.k))
    ELSE IF position(c.heap[n], t.k) = 0
    THEN CrabPanic(c, t, "attempt to subtract with overflow")
    ELSE CrabR(c, [t EXCEPT !.pc = "child", !.node = NoId, !.sib = NoId,
                     !.idx = position(c.heap[n], t.k), !.held = {},
                     !.child = c.heap[n].children[position(c.heap[n], t.k)].id],
               BtNone)

\* ---- the tree that the operations start on: keys 0 to 10 in four leaves
\* under two nodes under the root, as inserts and removes run one after
\* another leave it
CrabTree ==
    [i \in NodeIds |->
        IF i = 0 THEN IntNode(<<Elem(0, 1), Elem(7, 2)>>)
        ELSE IF i = 1 THEN IntNode(<<Elem(0, 3), Elem(5, 4)>>)
        ELSE IF i = 2 THEN IntNode(<<Elem(7, 5), Elem(9, 6)>>)
        ELSE IF i = 3 THEN LeafNode(Ones(0 .. 4))
        ELSE IF i = 4 THEN LeafNode(Ones(5 .. 6))
        ELSE IF i = 5 THEN LeafNode(Ones(7 .. 8))
        ELSE IF i = 6 THEN LeafNode(Ones(9 .. 10))
        ELSE NoNode]

CrabInit ==
    /\ tq = [t \in Tasks |-> TqIdle]
    /\ tc_heap = CrabTree
    /\ tc_height = 3
    /\ tc_keys = 0 .. 10
    /\ tc_panic = ""
    /\ tc_last = [op |-> "none", k |-> 0, ret |-> BtNone]
    /\ tc_ops = 0

\* ---- steps
\* some task holds a guard of node id
Locked(id) == \E u \in Tasks : id \in tq[u].held

\* the lock that the future of a task waits for
Awaits(q) == IF q.pc = "root" THEN 0 ELSE IF q.pc = "child" THEN q.child
             ELSE q.sib

CrabSpawned(t) == tq[t] = TqIdle /\ \A u \in 1 .. (t - 1) : tq[u] # TqIdle

\* an operation is called: the future of the root's lock is made
CrabStart(t, op, k) ==
    /\ tc_panic = ""
    /\ tc_ops < MaxTreeOps
    /\ CrabSpawned(t)
    /\ tq' = [tq EXCEPT ![t] = [TqIdle EXCEPT !.op = op, !.k = k, !.pc = "root"]]
    /\ tc_ops' = tc_ops + 1
    /\ UNCHANGED <<tc_heap, tc_height, tc_keys, tc_panic, tc_last,
                   idmlvars, dbvars, btvars, vbvars, concvars>>

CrabInsert(t, k) ==
    /\ k \in CrabKeys
    /\ CrabStart(t, "insert", k)
CrabRemove(t, k) ==
    /\ k \in CrabKeys
    /\ CrabStart(t, "remove", k)
CrabLookup(t, k) ==
    /\ k \in CrabKeys
    /\ CrabStart(t, "lookup", k)

\* a closure has run
CrabStepped(t, r) ==
    /\ tq' = [tq EXCEPT ![t] = IF r.c.panic # "" THEN tq[t] ELSE r.task]
    /\ tc_heap' = Gc(r.c.heap, tq')
    /\ tc_height' = r.c.height
    /\ tc_keys' = r.c.keys
    /\ tc_panic' = r.c.panic
    /\ tc_last' = IF r.c.panic = "" /\ r.task = TqIdle
                  THEN [op |-> tq[t].op, k |-> tq[t].k, ret |-> r.ret]
                  ELSE tc_last
    /\ UNCHANGED <<tc_ops, idmlvars, dbvars, btvars, vbvars, concvars>>

\* the lock that task t waits for is granted
Granted(t, op, pc) ==
    /\ tc_panic = ""
    /\ tq[t].op = op
    /\ tq[t].pc = pc
    /\ ~Locked(Awaits(tq[t]))

InsertLocked(t) ==
    /\ Granted(t, "insert", "root")
    /\ Cardinality(Fresh(tc_heap, tq)) >= 2
    /\ CrabStepped(t, crab_insert_locked(CrabCur, tq[t], Fresh(tc_heap, tq)))

InsertInt(t) ==
    /\ Granted(t, "insert", "child")
    /\ Fresh(tc_heap, tq) # {}
    /\ CrabStepped(t, crab_insert_int(CrabCur, tq[t], Fresh(tc_heap, tq)))

RemoveLocked(t) ==
    /\ Granted(t, "remove", "root")
    /\ CrabStepped(t, crab_remove_locked(CrabCur, tq[t],
                         Refs([tq EXCEPT ![t] = TqIdle])))

RemoveInt(t) ==
    /\ Granted(t, "remove", "child")
    /\ CrabStepped(t, crab_remove_int(CrabCur, tq[t]))

RemoveFix(t) ==
    /\ Granted(t, "remove", "sibling")
    /\ CrabStepped(t, crab_remove_fix(CrabCur, tq[t]))

LookupRoot(t) ==
    /\ Granted(t, "lookup", "root")
    /\ CrabStepped(t, crab_lookup_node(CrabCur, tq[t], 0))

LookupNode(t) ==
    /\ Granted(t, "lookup", "child")
    /\ CrabStepped(t, crab_lookup_node(CrabCur, tq[t], tq[t].child))

\* ============================================================ specifications
vars == <<idmlvars, dbvars, btvars, vbvars, concvars, crabvars>>
Init == IdmlInit /\ DbInit /\ BtInit /\ VbInit /\ ConcInit /\ CrabInit

\* IDML operations, each run to completion
Next ==
    \/ \E v \in Vals : Put(v)
    \/ \E v \in Vals, n \in 2 .. MaxRef : InjectRecord(v, n)
    \/ \E rid \in Rids : Get(rid)
    \/ \E rid \in Rids : Pop(rid)
    \/ \E rid \in Rids : Delete(rid)
    \/ \E rid \in Rids : Evict(rid)
    \/ \E pba \in Lbas : EvictPBA(pba)
    \/ \E z \in Zids : FinishZone(z)
    \/ \E z \in Zids : CleanZone(z)
    \/ \E z \in Zids : EraseZone(z)

Spec == Init /\ [][Next]_vars

\* fswrite tasks, sync_transaction and the device
NextDb ==
    \/ \E w \in Writers : fswrite_txg(w)
    \/ \E w \in Writers : fswrite_closure(w)
    \/ \E w \in Writers : fswrite_op(w)
    \/ \E w \in Writers : fswrite_done(w)
    \/ advance_transaction_lock
    \/ flush_filesystems
    \/ sync_all_1
    \/ write_label
    \/ sync_all_2
    \/ advance_transaction_done
    \/ \E r \in volatile : Destage(r)
    \/ DestageLabel
    \/ TearLabel

SpecDb == Init /\ [][NextDb]_vars

\* check_ridt on hand-made tables
NextCheck ==
    \/ \E rid \in Rids, pba \in Lbas, n \in 1 .. MaxRef : RidtInsert(rid, pba, n)
    \/ \E pba \in Lbas, rid \in Rids : AlloctInsert(pba, rid)
    \/ CheckRidt

SpecCheck == Init /\ [][NextCheck]_vars

\* Tree operations, each run to completion
NextTree ==
    \/ \E k \in BtKeys : \E v \in BtVals(k) : BtInsert(k, v)
    \/ \E k \in BtKeys : BtRemove(k)
    \/ \E k \in BtKeys : BtLookup(k)
    \/ BtSyncAll

SpecTree == Init /\ [][NextTree]_vars

\* Cluster and FreeSpaceMap calls, in any order
NextFsm ==
    \/ \E space \in 1 .. MaxSpace : FsmWrite(space)
    \/ \E len \in 1 .. MaxBuf : FsmWriteBuf(len)
    \/ \E z \in Zids, lbas \in 0 .. 1 : FsmOpenZone(z, lbas)
    \/ \E z \in Zids : FsmFinishZone(z)
    \/ \E z \in Zids : FsmEraseZone(z)
    \/ \E lba \in Lbas, length \in 1 .. ZoneSize, cfg_test \in BOOLEAN :
          FsmFree(lba, length, cfg_test)

SpecFsm == Init /\ [][NextFsm]_vars

\* IDML operations as tasks that interleave at their futures; records are
\* written and zones are finished while no task runs.  The interleavings do
\* not depend on what a record holds, so every record holds the same value.
ConcVals == {Min(Vals)}
NextConc ==
    \/ Quiescent /\ \E v \in ConcVals : Put(v)
    \/ Quiescent /\ \E v \in ConcVals, n \in 2 .. MaxRef : InjectRecord(v, n)
    \/ Quiescent /\ \E z \in Zids : FinishZone(z)
    \/ \E t \in Tasks, rid \in Rids : StartDelete(t, "delete", rid)
    \/ \E t \in Tasks, rid \in Rids : StartDelete(t, "pop", rid)
    \/ \E t \in Tasks, rid \in Rids : StartGet(t, rid)
    \/ \E t \in Tasks, z \in Zids : StartClean(t, z)
    \/ \E t \in Tasks : CleanNext(t)
    \/ \E t \in Tasks : RidtGet(t)
    \/ \E t \in Tasks : Closure(t)
    \/ \E t \in Tasks : CleanRangeDelete(t)
    \/ AdvanceTransaction

SpecConc == Init /\ [][NextConc]_vars

\* Tree operations as tasks that interleave at the locks of the nodes
NextCrab ==
    \/ \E t \in Tasks, k \in CrabKeys : CrabInsert(t, k)
    \/ \E t \in Tasks, k \in CrabKeys : CrabRemove(t, k)
    \/ \E t \in Tasks, k \in CrabKeys : CrabLookup(t, k)
    \/ \E t \in Tasks : InsertLocked(t)
    \/ \E t \in Tasks : InsertInt(t)
    \/ \E t \in Tasks : RemoveLocked(t)
    \/ \E t \in Tasks : RemoveInt(t)
    \/ \E t \in Tasks : RemoveFix(t)
    \/ \E t \in Tasks : LookupRoot(t)
    \/ \E t \in Tasks : LookupNode(t)

SpecCrab == Init /\ [][NextCrab]_vars

\* VdevBlock: submissions, and completions by the leaf device
NextVdev ==
    \/ \E lba \in VbLbas : VbSubmit(lba)
    \/ \E id \in 1 .. MaxOps, ok \in BOOLEAN : VbComplete(id, ok)

SpecVdev == Init /\ [][NextVdev]_vars

\* the leaf device completes every operation it was issued
SpecVdevFair ==
    SpecVdev /\ \A id \in 1 .. MaxOps : WF_vars(\E ok \in BOOLEAN : VbComplete(id, ok))

\* sanity: the only way the process dies is for want of space
OnlyEnospc == panic \in {"", "ENOSPC"}

\* ================================================================== claims
\* The cache forgotten: what a reader finds on a cold start
Cold(s) == [s EXCEPT !.cache = EmptyMap]

Alive == panic = ""

\* C1: after any sequence of IDML operations that ran to completion, the RIDT
\* and the AllocT are exact inverses of each other: every AllocT entry
\* pba -> rid has a RIDT entry for rid whose DRP is at pba, and every RIDT
\* entry's PBA maps back to its RID in the AllocT.
C1_Inverse ==
    Alive =>
      /\ \A pba \in DOMAIN alloct :
            /\ alloct[pba] \in DOMAIN ridt
            /\ ridt[alloct[pba]].pba = pba
      /\ \A rid \in DOMAIN ridt :
            /\ ridt[rid].pba \in DOMAIN alloct
            /\ alloct[ridt[rid].pba] = rid

\* a zone was cleaned, a record was moved, and records are still there
C1_Witness ==
    /\ Alive
    /\ last.op = "clean_zone"
    /\ last.dests # <<>>
    /\ Cardinality(DOMAIN ridt) = MaxRid

\* C4: clean_zone(z) loses nothing: every RID that was in the RIDT before is
\* still there with the same refcount, get returns the same contents for it
\* (from the cache or from the disk), and check() is true afterwards.
C4_CleanZonePreserves ==
    [][\A z \in Zids : (CleanZone(z) /\ panic' = "") =>
          /\ check_ridt(Cur')
          /\ DOMAIN ridt' = DOMAIN ridt
          /\ \A rid \in DOMAIN ridt :
                /\ ridt'[rid].refcount = ridt[rid].refcount
                /\ IDML_get(Cur', rid).res = IDML_get(Cur, rid).res
                /\ IDML_get(Cold(Cur'), rid).res = IDML_get(Cold(Cur), rid).res
                /\ IDML_get(Cold(Cur'), rid).res = Ok(contents[rid])]_vars

\* a shared record (refcount > 1) has just been moved by clean_zone
C4_Witness ==
    /\ Alive
    /\ last.op = "clean_zone"
    /\ \E rid \in DOMAIN ridt :
          /\ ridt[rid].refcount > 1
          /\ \E i \in 1 .. Len(last.dests) : last.dests[i] = ridt[rid].pba

C6_ReadBack ==
    Alive => \A rid \in DOMAIN refs :
      IF refs[rid] > 0
      THEN /\ IDML_get(Cur, rid).res = Ok(contents[rid])
           /\ IDML_get(Cold(Cur), rid).res = Ok(contents[rid])
           /\ IDML_pop(Cur, rid).res = Ok(contents[rid])
           /\ IDML_pop(Cold(Cur), rid).res = Ok(contents[rid])
      ELSE /\ IDML_get(Cur, rid).res = Err(ENOENT)
           /\ IDML_pop(Cur, rid).res = Err(ENOENT)
           /\ IDML_delete(Cur, rid).res = Err(ENOENT)

\* one record has lost its last reference through delete, another is live
C6_Witness ==
    /\ Alive
    /\ last.op = "delete"
    /\ \E rid \in DOMAIN refs : refs[rid] = 0 /\ last.arg = rid
    /\ \E rid \in DOMAIN refs : refs[rid] > 0

DecrementsByOne(rid) ==
    IF ridt[rid].refcount = 1
    THEN rid \notin DOMAIN ridt'
    ELSE /\ rid \in DOMAIN ridt'
         /\ ridt'[rid].refcount = ridt[rid].refcount - 1

\* C7: every RIDT entry has a refcount of at least 1; delete and pop lower it
\* by exactly one, and the entry goes exactly when the count reaches 0.
C7_Refcount ==
    /\ [](\A rid \in DOMAIN ridt : ridt[rid].refcount >= 1)
    /\ [][\A rid \in DOMAIN ridt :
            (Delete(rid) \/ Pop(rid)) => DecrementsByOne(rid)]_vars

\* pop has just taken one of several references
C7_Witness ==
    /\ Alive
    /\ last.op = "pop"
    /\ last.arg \in DOMAIN ridt
    /\ ridt[last.arg].refcount >= 1
    /\ refs[last.arg] = ridt[last.arg].refcount

\* C8: delete(rid) of the last reference removes rid from the RIDT, its PBA
\* from the AllocT and Key::Rid(rid) from the cache, and frees the record's
\* storage exactly once.
C8_DeleteLast ==
    [][\A rid \in DOMAIN ridt :
          (Delete(rid) /\ ridt[rid].refcount = 1) =>
             LET pba == ridt[rid].pba
                 zi == lba2zone(pba) + 1
             IN /\ panic' = ""
                /\ rid \notin DOMAIN ridt'
                /\ pba \notin DOMAIN alloct'
                /\ KeyRid(rid) \notin DOMAIN cache'
                /\ last'.frees = <<pba>>
                /\ zones' = [zones EXCEPT ![zi].freed_blocks = @ + 1]]_vars

\* a record has just lost its last reference through delete
C8_Witness ==
    /\ Alive
    /\ last.op = "delete"
    /\ last.arg \notin DOMAIN ridt
    /\ Len(last.frees) = 1
    /\ KeyRid(last.arg) \notin DOMAIN cache

\* C9: delete(rid) of one of n > 1 references only stores n - 1: the DRP and
\* the AllocT stay as they are and no storage is freed.
C9_DeleteNotLast ==
    [][\A rid \in DOMAIN ridt :
          (Delete(rid) /\ ridt[rid].refcount > 1) =>
             /\ panic' = ""
             /\ ridt' = [ridt EXCEPT ![rid].refcount = @ - 1]
             /\ alloct' = alloct
             /\ last'.frees = <<>>
             /\ zones' = zones
             /\ disk' = disk]_vars

\* a reference of a shared record has just been deleted; the record stays
C9_Witness ==
    /\ Alive
    /\ last.op = "delete"
    /\ last.arg \in DOMAIN ridt
    /\ last.frees = <<>>

\* ------------------------------------------------------- Database claims
InClosure(w) == wpc[w] \in {"closure", "running"}

\* what recovery would find: the operations in the dataset tree that the
\* label on stable storage leads to
Recovered == IF label_media.valid THEN label_media.fs.ops ELSE {}

\* C2: all operations of the closure passed to fswrite complete within one
\* transaction group: from the moment the closure is handed its txg until its
\* future has completed, sync_transaction's body does not run and the txg
\* does not advance; so what a crash leaves holds all of a closure's
\* operations or none of them.
C2_FswriteOneTxg ==
    /\ \A w \in Writers : InClosure(w) => ~txg_writer
    /\ \A w \in Writers : wpc[w] = "running" => txg = wtxg[w]
    /\ \A w \in Writers :
          {k \in 1 .. OpsPerWrite : <<w, k>> \in Recovered}
             \in {{}, 1 .. OpsPerWrite}

\* C3: at every point of the sync protocol the label that recovery would use
\* references only tree roots that are on stable storage themselves (a
\* completed sync_all made them durable before the label was written).
C3_LabelRootsDurable ==
    label_media.valid =>
       /\ label_media.forest \in media
       /\ label_media.fs \in media

\* C10: sync_transaction runs, in this order, each step after the previous
\* one completed: flush of the dataset trees, flush of RIDT and AllocT,
\* ddml.sync_all, label write, ddml.sync_all; only then is the txg advanced.
C10_SyncOrder ==
    spc = "advance" =>
       steps = <<"flush_datasets", "flush_idml", "sync_all", "write_label",
                 "sync_all">>

\* C11: labels go alternately into two slots, so once a transaction has been
\* synced there is a valid label on stable storage at every instant, also in
\* the middle of a label write.
C11_ValidLabelAlways ==
    txg >= 1 => label_media.valid

\* C12: only advance_transaction changes the txg: it holds the txg lock
\* exclusively from before F(txg) starts until F's future has completed, and
\* then adds exactly one; so the txg never decreases, and it never changes
\* while a task holds a read guard.
C12_TxgExclusive ==
    /\ [](txg_writer => txg_readers = {})
    /\ [](txg_writer <=> spc # "idle")
    /\ [][txg' # txg =>
            /\ txg_writer
            /\ spc = "advance"
            /\ txg' = txg + 1
            /\ txg_readers = {}]_vars
    /\ [][txg_readers # {} /\ txg_readers' # {} => txg' = txg]_vars

\* the txg has been advanced, and a task holds a read guard on the new txg
\* while another one still works with the txg it was handed before
C12_Witness ==
    /\ txg >= 1
    /\ \E w \in Writers : wpc[w] = "closure" /\ w \in txg_readers
    /\ \E w \in Writers : wpc[w] = "running" /\ wtxg[w] < txg

\* C13: when clean_zone(z) completes no live record is left in z: the AllocT
\* has no key in z's range of PBAs and no RIDT entry's DRP points into it, so
\* that z, still closed, can be erased, which makes it empty.
C13_ZoneVacated ==
    [][\A z \in Zids : (CleanZone(z) /\ panic' = "") =>
          /\ \A pba \in DOMAIN alloct' :
                ~(pba >= zone_limits(z)[1] /\ pba < zone_end(Cur, z))
          /\ \A rid \in DOMAIN ridt' :
                ~(ridt'[rid].pba >= zone_limits(z)[1]
                    /\ ridt'[rid].pba < zone_end(Cur, z))
          /\ z \in closed_zones(Cur')
          /\ Cluster_erase_zone(Cur', z).panic = ""
          /\ is_empty(Cluster_erase_zone(Cur', z), z)]_vars

\* a zone that held several live records has been cleaned and is still
\* waiting to be erased, its records live elsewhere
C13_Witness ==
    /\ Alive
    /\ last.op = "clean_zone"
    /\ Len(last.dests) > 1
    /\ last.arg \in closed_zones(Cur)
    /\ \A pba \in DOMAIN alloct : lba2zone(pba) # last.arg
    /\ Cardinality(DOMAIN ridt) > 1

\* the two tables are exact inverses of each other
ExactInverses(r, a) ==
    /\ \A pba \in DOMAIN a : a[pba] \in DOMAIN r /\ r[a[pba]].pba = pba
    /\ \A rid \in DOMAIN r : r[rid].pba \in DOMAIN a /\ a[r[rid].pba] = rid

\* C14: check() returns true exactly when RIDT and AllocT are exact inverses
\* of each other; it returns false when an AllocT entry has no matching RIDT
\* entry, or when a RIDT entry's PBA is not mapped back to that same RID.
C14_CheckExact ==
    last.op = "check_ridt" => (last.arg = 1 <=> ExactInverses(ridt, alloct))

\* ----------------------------------------------------------- Tree claims
\* what the map that the tree stands for holds at k
Expected(k) == IF k \in DOMAIN bt_map THEN BtSome(bt_map[k]) ELSE BtNone

\* C15: the tree behaves as a map.  After any sequence of inserts and removes
\* lookup(k) finds the value of the latest insert(k, .) that no remove(k) has
\* followed, and fails with ENOENT otherwise; insert returns the value the key
\* had (None if it had none), remove returns the value it removes (None, and
\* the contents of the tree stay as they are, if the key is absent).
C15_TreeIsMap ==
    (bt_panic = "" /\ all_mem(bt_root)) =>
       /\ tree_items(bt_root) = {<<k, bt_map[k]>> : k \in DOMAIN bt_map}
       /\ \A k \in BtKeys :
             LET found   == lookup_node(bt_root, k)
                 removed == remove_locked(bt_root, bt_height, k)
             IN /\ found.panic = ""
                /\ found.ret = Expected(k)
                /\ removed.panic = ""
                /\ removed.ret = Expected(k)
                /\ k \notin DOMAIN bt_map =>
                      tree_items(removed.node) = tree_items(bt_root)
                /\ \A v \in BtVals(k) :
                      LET inserted == insert_locked(bt_root, bt_height, k, v)
                      IN inserted.panic = "" /\ inserted.ret = Expected(k)

\* an insert into a tree of height 3 has replaced a value and returned the
\* old one
C15_Witness ==
    /\ bt_panic = ""
    /\ bt_height = 3
    /\ bt_last = [op |-> "insert", ret |-> BtSome(1)]
    /\ \E k \in DOMAIN bt_map : bt_map[k] = 2

\* C16: after any sequence of inserts and removes all leaves are at the same
\* depth, and the recorded height is that depth (1 for a single leaf).
C16_HeightIsDepth ==
    bt_panic = "" => leaf_depths(bt_root) = {bt_height}

\* a remove has merged the root of a tree of height 3 with its only child
C16_Witness ==
    /\ bt_panic = ""
    /\ bt_last.op = "remove"
    /\ bt_height = 2
    /\ Cardinality(DOMAIN bt_map) >= 2 * max_fanout - 1

\* C17: after sync_all (flush) has completed the root pointer is an address
\* on disk, and no pointer to a node in memory is reachable from the root.
C17_RootIsAddress ==
    (bt_panic = "" /\ bt_last.op = "sync_all") =>
       /\ ~bt_root_mem
       /\ dirty_ptrs(bt_root) = {}

\* ------------------------------------------------- FreeSpaceMap claims
\* The three states of a zone, after the comment on FreeSpaceMap.zones
ZoneOpen(z) == z \in DOMAIN open_zones
ZoneEmpty(z) == ~ZoneOpen(z) /\ (z >= Len(zones) \/ z \in empty_zones)
ZoneClosed(z) == ~ZoneOpen(z) /\ ~ZoneEmpty(z)
ZoneState(z) == IF ZoneOpen(z) THEN "Open"
                ELSE IF ZoneEmpty(z) THEN "Empty" ELSE "Closed"

\* the free tail of an open zone
FreeTail(z) == zone_limits(z)[2] - open_zones[z].write_pointer
Fitting(space) == {z \in Zids : ZoneOpen(z) /\ FreeTail(z) >= space}
EmptyIds == {z \in Zids : ZoneEmpty(z)}
Allocated(z, lba, space) ==
    /\ last'.dests = <<lba>>
    /\ open_zones' = MapPut(open_zones, z,
                            [start |-> zone_limits(z)[1],
                             write_pointer |-> lba + space])
NoSpace == last'.dests = <<>>

\* what Cluster::write does when no open zone fits; fits tells whether a
\* buffer of that many LBAs fits in the zone that is opened
WritePolicy(space, fits) ==
    IF Fitting(space) # {}
    THEN Allocated(Min(Fitting(space)),
                   open_zones[Min(Fitting(space))].write_pointer, space)
    ELSE IF EmptyIds # {}
    THEN IF fits
         THEN Allocated(Min(EmptyIds), zone_limits(Min(EmptyIds))[1], space)
         ELSE /\ NoSpace
              /\ open_zones' = MapPut(open_zones, Min(EmptyIds),
                     [start |-> zone_limits(Min(EmptyIds))[1],
                      write_pointer |-> zone_limits(Min(EmptyIds))[1]])
    ELSE NoSpace /\ open_zones' = open_zones

C19_EraseOnlyClosed ==
    [][\A z \in Zids :
          FsmEraseZone(z) =>
             /\ panic' # "" <=> ~ZoneClosed(z)
             /\ panic' = "" => ZoneEmpty(z)']_vars

\* C20: a zone is opened only while it is empty and finished only while it
\* is open (opening an open or closed zone, or finishing an empty or closed
\* zone, is a fatal error), so that every zone only ever goes from Empty to
\* Open, from Open to Closed and from Closed to Empty.
C20_ZoneCycle ==
    [][/\ \A z \in Zids, lbas \in 0 .. 1 :
             FsmOpenZone(z, lbas) =>
                /\ panic' # "" <=> ~ZoneEmpty(z)
                /\ panic' = "" => ZoneOpen(z)'
       /\ \A z \in Zids :
             FsmFinishZone(z) =>
                /\ panic' # "" <=> ~ZoneOpen(z)
                /\ panic' = "" => ZoneClosed(z)'
       /\ \A z \in Zids :
             \/ ZoneState(z)' = ZoneState(z)
             \/ <<ZoneState(z), ZoneState(z)'>> \in
                   {<<"Empty", "Open">>, <<"Open", "Closed">>,
                    <<"Closed", "Empty">>}]_vars

\* zone 0 has been opened, written, finished and erased, and is open again
\* while zone 1 is closed
C20_Witness ==
    /\ panic = ""
    /\ last.op = "open_zone" /\ last.arg = 0
    /\ ZoneOpen(0) /\ ZoneClosed(1)
    /\ disk[zone_limits(0)[1]] = Blank
    /\ disk[zone_limits(1)[1]] # Blank

\* what has been written to an open zone
Committed(z) == open_zones[z].write_pointer - open_zones[z].start

\* C21: as long as no free-space-map operation has aborted, every zone has
\* freed_blocks <= total_blocks and every open zone has freed_blocks <=
\* write_pointer - start; a free that would break either bound is a fatal
\* double free.
C21_FreedBounded ==
    /\ [](panic = "" =>
            \A z \in 0 .. (Len(zones) - 1) :
               /\ zones[z + 1].freed_blocks <= zones[z + 1].total_blocks
               /\ ZoneOpen(z) => zones[z + 1].freed_blocks <= Committed(z))
    /\ [][\A lba \in Lbas, length \in 1 .. ZoneSize, cfg_test \in BOOLEAN :
            (/\ FsmFree(lba, length, cfg_test)
             /\ lba2zone(lba) = lba2zone(lba + length - 1)
             /\ ~ZoneEmpty(lba2zone(lba))
             /\ \/ zones[lba2zone(lba) + 1].freed_blocks + length
                      > zones[lba2zone(lba) + 1].total_blocks
                \/ /\ ZoneOpen(lba2zone(lba))
                   /\ zones[lba2zone(lba) + 1].freed_blocks + length
                         > Committed(lba2zone(lba)))
            => panic' \in {"Double free detected",
                           "Double free detected in an open zone"}]_vars

\* a second free of the only LBA written to an open zone has been rejected
C21_Witness ==
    /\ panic = "Double free detected in an open zone"
    /\ last.op = "free"
    /\ \E z \in Zids : /\ ZoneOpen(z)
                        /\ Committed(z) = 1
                        /\ zones[z + 1].freed_blocks = 2
                        /\ zones[z + 1].total_blocks = ZoneSize

\* C22: Cluster::free(lba, length) rejects as fatal every range that does not
\* lie inside one zone, and otherwise adds length to the freed_blocks of that
\* one zone and of no other.
C22_FreeWithinZone ==
    [][\A lba \in Lbas, length \in 1 .. ZoneSize, cfg_test \in BOOLEAN :
          FsmFree(lba, length, cfg_test) =>
             IF lba2zone(lba) # lba2zone(lba + length - 1)
             THEN panic' # ""
             ELSE panic' = "" =>
                    /\ Len(zones') = Len(zones)
                    /\ \A z \in 0 .. (Len(zones) - 1) :
                          /\ zones'[z + 1].total_blocks = zones[z + 1].total_blocks
                          /\ zones'[z + 1].freed_blocks =
                                zones[z + 1].freed_blocks
                                  + (IF z = lba2zone(lba) THEN length ELSE 0)]_vars

\* C23: a successful Cluster::write of a buffer of len bytes allocates
\* ceil(len / block size) LBAs: the write pointer of the zone that was chosen
\* stands that many LBAs beyond the LBA that was returned.
C23_AllocatesCeil ==
    [][\A len \in 1 .. MaxBuf :
          (FsmWriteBuf(len) /\ last'.dests # <<>>) =>
             \E z \in DOMAIN open_zones' :
                /\ lba2zone(last'.dests[1]) = z
                /\ open_zones'[z].write_pointer =
                      last'.dests[1] + div_roundup(len, BYTES_PER_LBA)]_vars

\* C24: when no zone can host a write the allocation fails with ENOSPC, and
\* the caller of put is handed that error as a value: the process does not
\* abort on it.
C24_NoSpaceSurfaced ==
    last.op \in {"put", "inject", "clean_zone"} => panic # "ENOSPC"

\* ----------------------------------------------------- VdevBlock claims
Ascending(seq) == \A i \in 1 .. (Len(seq) - 1) : seq[i] < seq[i + 1]

\* C25: operations submitted to a VdevBlock in ascending LBA order are issued
\* to the leaf device in ascending LBA order, whatever the interleaving of
\* submissions and completions, also when operations wait in the queue
\* because the queue depth has reached its limit.
C25_IssuedAscending ==
    Ascending(vb_subs) => Ascending(vb_issued)

\* C26: every operation submitted to the VdevBlock is eventually issued to
\* the leaf device and its future eventually resolves, provided the leaf
\* completes every operation issued to it, successfully or with an error.
C26_AllIssued ==
    \A id \in 1 .. MaxOps :
       (Len(vb_subs) >= id) ~> (id \in vb_resolved)


\* ---------------------------------------------------------------- C27
\* the closure of a delete or pop of task t completes in this step
Completes(t, ops) ==
    /\ tk[t].pc = "closure" /\ tk[t].op \in ops
    /\ tk'[t] = Idle

\* C27: two delete/pop operations on the same RID that overlap act like some
\* serial order of the two: when the closure of one completes on a record
\* that has not moved since the operation read its entry, the refcount in
\* the RIDT goes down by one from what the RIDT holds now, and a record whose
\* last reference goes leaves the RIDT and the AllocT.
C27_NoLostDecrement ==
    [][\A t \in Tasks :
         (/\ Completes(t, {"delete", "pop"})
          /\ tk[t].rid \in DOMAIN ridt
          /\ ridt[tk[t].rid].pba = tk[t].entry.pba)
         => IF ridt[tk[t].rid].refcount = 1
            THEN /\ tk[t].rid \notin DOMAIN ridt'
                 /\ tk[t].entry.pba \notin DOMAIN alloct'
            ELSE /\ tk[t].rid \in DOMAIN ridt'
                 /\ ridt'[tk[t].rid].refcount = ridt[tk[t].rid].refcount - 1]_vars


\* ---------------------------------------------------------------- C28
\* C28: clean_zone that overlaps deletes and pops of records of its zone
\* keeps the RIDT and the AllocT exact inverses of each other: no assertion
\* of the tables or of the free space map fails on the way (a record is not
\* freed twice, the mover finds every record it was told to move), and once
\* every operation has completed each RIDT entry is indexed by the AllocT at
\* its address and each AllocT entry names a record of the RIDT.
C28_CleanKeepsBijection ==
    /\ panic \in {"", "ENOSPC"}
    /\ (Quiescent /\ panic = "") => ExactInverses(ridt, alloct)


\* ---------------------------------------------------------------- C29
\* C29: whenever no IDML operation is in progress, every Key::Rid entry of
\* the cache belongs to a record of the RIDT: a get that missed the cache and
\* overlapped the delete or pop of the last reference has not put the record
\* back after the delete purged it.
C29_NoStaleCacheEntry ==
    (Quiescent /\ panic = "")
        => \A rid \in Rids : KeyRid(rid) \in DOMAIN cache => rid \in DOMAIN ridt


RECURSIVE FanoutBelow(_)
FanoutBelow(n) ==
    ~n.int \/ \A i \in 1 .. Len(n.children) :
                 /\ node_len(n.children[i].node) >= min_fanout
                 /\ node_len(n.children[i].node) <= max_fanout
                 /\ FanoutBelow(n.children[i].node)

\* C31: after any sequence of inserts and removes every node other than the
\* root holds between min_fanout and max_fanout entries, and the root holds at
\* most max_fanout.
C31_Fanout ==
    bt_panic = "" => node_len(bt_root) <= max_fanout /\ FanoutBelow(bt_root)

\* a remove has left a tree of height 3 with an interior node at min_fanout
\* that has a leaf at min_fanout
C31_Witness ==
    /\ bt_panic = "" /\ bt_height = 3 /\ bt_last.op = "remove"
    /\ \E i \in 1 .. Len(bt_root.children) :
         /\ node_len(bt_root.children[i].node) = min_fanout
         /\ \E j \in 1 .. Len(bt_root.children[i].node.children) :
              node_len(bt_root.children[i].node.children[j].node) = min_fanout


\* ---------------------------------------------------------------- C32
\* C32: once a remove has completed the root is not an interior node with a
\* single child: such a root has been collapsed into its child, and the
\* recorded height has gone down by one.
C32_RootCollapsed ==
    (bt_panic = "" /\ bt_last.op = "remove")
        => ~(bt_root.int /\ Len(bt_root.children) = 1)


\* ---------------------------------------------------------------- C33
\* the interior nodes of the tree below and including n
RECURSIVE IntNodes(_)
IntNodes(n) ==
    IF ~n.int THEN {}
    ELSE {n} \cup UNION {IntNodes(n.children[i].node) : i \in 1 .. Len(n.children)}

\* what a node holds, in order: the keys of a leaf, the children of an
\* interior node
Entries(n) ==
    IF n.int THEN n.children
    ELSE [i \in 1 .. node_len(n) |-> nth(DOMAIN n.items, i - 1)]

\* the rule for the child idx of parent, whose sibling on the right is at
\* idx + 1: merged into the child if both fit, else the child takes the
\* sibling's lowest (donor.len - receiver.len) / 2 entries
RightRule(parent, idx, f) ==
    LET c == parent.children[idx].node
        r == parent.children[idx + 1].node
        n == (node_len(r) - node_len(c)) \div 2
    IN IF node_len(c) + node_len(r) <= max_fanout
       THEN /\ Len(f.children) = Len(parent.children) - 1
            /\ Entries(f.children[idx].node) = Entries(c) \o Entries(r)
            /\ f.children[idx].key = parent.children[idx].key
            /\ \A j \in 1 .. Len(f.children) :
                  j # idx => f.children[j] = parent.children[IF j < idx THEN j ELSE j + 1]
       ELSE /\ Len(f.children) = Len(parent.children)
            /\ Entries(f.children[idx].node)
                  = Entries(c) \o SubSeq(Entries(r), 1, n)
            /\ Entries(f.children[idx + 1].node)
                  = SubSeq(Entries(r), n + 1, node_len(r))
            /\ f.children[idx].key = parent.children[idx].key
            /\ f.children[idx + 1].key = node_key(f.children[idx + 1].node)
            /\ \A j \in 1 .. Len(f.children) :
                  j \notin {idx, idx + 1} => f.children[j] = parent.children[j]

\* the same for the last child, whose only sibling is on the left
LeftRule(parent, idx, f) ==
    LET c == parent.children[idx].node
        l == parent.children[idx - 1].node
        n == (node_len(l) - node_len(c)) \div 2
    IN IF node_len(l) + node_len(c) <= max_fanout
       THEN /\ Len(f.children) = Len(parent.children) - 1
            /\ Entries(f.children[idx - 1].node) = Entries(l) \o Entries(c)
            /\ \A j \in 1 .. Len(f.children) :
                  j # idx - 1 => f.children[j] = parent.children[j]
            /\ f.children[idx - 1].key = parent.children[idx - 1].key
       ELSE /\ Len(f.children) = Len(parent.children)
            /\ Entries(f.children[idx].node)
                  = SubSeq(Entries(l), node_len(l) - n + 1, node_len(l))
                      \o Entries(c)
            /\ Entries(f.children[idx - 1].node)
                  = SubSeq(Entries(l), 1, node_len(l) - n)
            /\ f.children[idx].key = node_key(f.children[idx].node)
            /\ \A j \in 1 .. Len(f.children) :
                  j # idx => f.children[j].key = parent.children[j].key

\* C33: when remove descends into a child that holds exactly min_fanout
\* entries it rebalances with the right sibling whenever there is one (merging
\* if both fit in max_fanout, stealing otherwise) and with the left sibling
\* only when there is none on the right; a steal moves
\* (donor.len - receiver.len) / 2 entries and the parent's separator key
\* follows.
C33_FixRule ==
    (bt_panic = "" /\ all_mem(bt_root)) =>
        \A parent \in IntNodes(bt_root) : \A idx \in 1 .. Len(parent.children) :
            (Len(parent.children) > 1
             /\ node_len(parent.children[idx].node) = min_fanout)
            => /\ fix(parent, idx).panic = ""
               /\ IF idx < Len(parent.children)
                  THEN RightRule(parent, idx, fix(parent, idx).node)
                  ELSE LeftRule(parent, idx, fix(parent, idx).node)
               /\ \A k \in BtKeys :
                     position(parent, k) = idx
                        => remove_int(parent, idx, k)
                             = remove_no_fix(fix(parent, idx).node, k)

\* a remove has completed in a tree where a child at min_fanout has to steal
\* from its right sibling, and another from its left sibling
C33_Witness ==
    /\ bt_panic = "" /\ all_mem(bt_root) /\ bt_last.op = "remove"
    /\ \E parent \in IntNodes(bt_root) : \E idx \in 1 .. (Len(parent.children) - 1) :
         /\ node_len(parent.children[idx].node) = min_fanout
         /\ node_len(parent.children[idx + 1].node) + min_fanout > max_fanout
    /\ \E parent \in IntNodes(bt_root) :
         /\ Len(parent.children) > 1
         /\ node_len(parent.children[Len(parent.children)].node) = min_fanout
         /\ node_len(parent.children[Len(parent.children) - 1].node) + min_fanout
               > max_fanout


\* ---------------------------------------------------------------- C36
\* C36: within one flush every dirty child is written, and its pointer in the
\* parent replaced by its address, before the parent is serialized and
\* written, and the root is written last: no node that is written holds an
\* in-memory pointer.
C36_ChildrenFirst ==
    /\ [](bt_last.op = "sync_all" =>
            /\ bt_writes # <<>>
            /\ bt_writes[Len(bt_writes)] = bt_root
            /\ \A j \in 1 .. Len(bt_writes) :
                  bt_writes[j].int =>
                     \A i \in 1 .. Len(bt_writes[j].children) :
                        /\ ~bt_writes[j].children[i].mem
                        /\ \A p \in 1 .. Len(bt_writes) :
                              bt_writes[p] = bt_writes[j].children[i].node
                                 => p < j)
    /\ [][(bt_panic = "" /\ bt_last'.op = "sync_all" /\ bt_root' # bt_root) =>
            /\ Len(bt_writes') = Cardinality(dirty_ptrs(bt_root)) + 1
            /\ \A n \in IntNodes(bt_root) : \A i \in 1 .. Len(n.children) :
                  n.children[i].mem =>
                     \E p \in 1 .. Len(bt_writes') :
                        /\ tree_items(bt_writes'[p]) = tree_items(n.children[i].node)
                        /\ bt_writes'[p].int = n.children[i].node.int]_vars

\* a sync_all has written a tree of height 3 whose nodes were all dirty
C36_Witness ==
    /\ bt_last.op = "sync_all" /\ bt_height = 3
    /\ Len(bt_writes) >= 7
    /\ dirty_ptrs(bt_root) = {}


\* ---------------------------------------------------------------- C37
\* the LBAs that the Cluster::write logged in `last` was given
WrittenLbas(l) ==
    LET space == IF l.op = "write_buf" THEN l.arg \div BYTES_PER_LBA ELSE l.arg
    IN l.dests[1] .. (l.dests[1] + space - 1)

\* C37: the Cluster issues no write to a zone of the RAID vdev that has not
\* been opened on the vdev since it was last erased, and rewrites no LBA of a
\* zone that has not been erased in between: a Cluster::write that writes to
\* a zone it has just opened in its free space map has called the vdev's
\* open_zone for it before write_at, and every LBA it writes is blank.
C37_OpenBeforeWrite ==
    [][(last'.op \in {"write", "write_buf"} /\ last'.dests # <<>>) =>
         /\ lba2zone(last'.dests[1]) \notin DOMAIN open_zones =>
               \E i, j \in 1 .. Len(last'.vdev) :
                  /\ i < j
                  /\ last'.vdev[i] = VdevCall("open_zone", lba2zone(last'.dests[1]))
                  /\ last'.vdev[j] = VdevCall("write_at", lba2zone(last'.dests[1]))
         /\ \A l \in WrittenLbas(last') : disk[l] = Blank]_vars


\* ---------------------------------------------------------------- C38
\* C38: a Cluster::write that fails with NoSpace leaves the free space map as
\* it was: no zone changes state (none is left open) and no write pointer
\* moves.
C38_NoSpaceNoChange ==
    [][(last'.op = "write" /\ last'.dests = <<>> /\ panic' = "") =>
         /\ zones' = zones
         /\ empty_zones' = empty_zones
         /\ open_zones' = open_zones]_vars


\* C39: the write pointer of every open zone lies between the zone's start
\* and start + total_blocks; every successful allocation hands out the LBAs
\* from the zone's write pointer (the zone's start if it has just been
\* opened) up to the new write pointer, and the write pointer of a zone
\* that stays open never moves back: the ranges handed out in a zone since
\* it was opened are pairwise disjoint and ascend in allocation order.
WritePointerInZone ==
    \A z \in DOMAIN open_zones :
       /\ open_zones[z].start <= open_zones[z].write_pointer
       /\ open_zones[z].write_pointer
            <= open_zones[z].start + zones[z + 1].total_blocks

AllocatedLbas(l) ==
    IF l.op = "write" THEN l.arg ELSE l.arg \div BYTES_PER_LBA

AllocatedAtWritePointer ==
    (last'.op \in {"write", "write_buf"} /\ last'.dests # <<>>) =>
       LET z == last'.vdev[1].zone
           lba == last'.dests[1]
       IN /\ z \in DOMAIN open_zones'
          /\ lba = IF z \in DOMAIN open_zones
                   THEN open_zones[z].write_pointer
                   ELSE open_zones'[z].start
          /\ open_zones'[z].write_pointer = lba + AllocatedLbas(last')

WritePointerAscends ==
    \A z \in DOMAIN open_zones \cap DOMAIN open_zones' :
       open_zones'[z].write_pointer >= open_zones[z].write_pointer

C39_AllocationsAscend ==
    /\ []WritePointerInZone
    /\ [][panic' = "" => (AllocatedAtWritePointer /\ WritePointerAscends)]_vars

\* a second allocation in a zone, handed out behind the first
C39_Witness ==
    /\ panic = ""
    /\ last.op = "write"
    /\ last.dests # <<>>
    /\ last.dests[1] > zone_limits(last.vdev[1].zone)[1]
    /\ open_zones[last.vdev[1].zone].write_pointer = last.dests[1] + last.arg


\* C40: queue_depth always equals the number of operations that were issued
\* to the leaf device and have not completed, and never exceeds
\* MAX_QUEUE_DEPTH; an operation submitted while fewer than MAX_QUEUE_DEPTH
\* operations are outstanding is issued at once, in request order.
Outstanding == Cardinality(vb_inflight)

SubmittedNow == Len(vb_subs') = Len(vb_subs) + 1

C40_QueueDepth ==
    /\ [](vb_depth = Outstanding /\ vb_depth <= MAX_QUEUE_DEPTH)
    /\ [][(SubmittedNow /\ Outstanding < MAX_QUEUE_DEPTH) =>
            /\ vb_issued' = Append(vb_issued, vb_subs'[Len(vb_subs')])
            /\ Len(vb_subs') \in vb_inflight']_vars


\* ------------------------------------------------- concurrent tree claims
RECURSIVE crab_find(_, _, _)
\* what a descent from node id finds of key k
crab_find(h, id, k) ==
    IF ~h[id].int THEN k \in DOMAIN h[id].items
    ELSE IF position(h[id], k) = 0 THEN FALSE
    ELSE crab_find(h, h[id].children[position(h[id], k)].id, k)

\* parents and children agree: a descent from the root finds every key that
\* is in the tree, and no other
PairsUpdated ==
    tc_panic = "" =>
       \A k \in BtKeys : crab_find(tc_heap, 0, k) <=> k \in tc_keys

CrabWriter(t) == tq[t].op \in {"insert", "remove"}

\* the child that task t has locked under its parent must be split or fixed
NeedsParent(t) ==
    IF tq[t].op = "insert" THEN should_split(tc_heap[tq[t].child])
    ELSE should_fix(tc_heap[tq[t].child])

\* task t runs the closure that follows the lock of its child or sibling
CrabActs(t) ==
    \/ tq'[t] # tq[t]
    \/ /\ ~Locked(Awaits(tq[t]))
       /\ tc_heap'[tq[t].child] # tc_heap[tq[t].child]

Deadlocked ==
    /\ \E t \in Tasks : tq[t] # TqIdle
    /\ \A t \in Tasks : tq[t] # TqIdle => Locked(Awaits(tq[t]))

\* a task that holds guards waits for a child of the topmost node it holds
TopDown ==
    \A t \in Tasks :
       tq[t].held # {} =>
          /\ Awaits(tq[t]) \in ChildIds(tc_heap[tq[t].node])
          /\ tq[t].pc = "sibling" => tq[t].child \in ChildIds(tc_heap[tq[t].node])

\* the place of node id among the children of parent
IndexOf(parent, id) ==
    CHOOSE i \in 1 .. Len(parent.children) : parent.children[i].id = id

\* a sibling is locked after a child that lies left of it
SiblingsAscend ==
    \A t \in Tasks :
       tq[t].pc = "sibling" =>
          IndexOf(tc_heap[tq[t].node], tq[t].child)
            < IndexOf(tc_heap[tq[t].node], tq[t].sib)

\* a sibling's lock is asked for under the write locks of parent and child
SiblingUnderParent ==
    \A t \in Tasks :
       tq[t].pc = "sibling" => {tq[t].node, tq[t].child} \subseteq tq[t].held

\* C35 as stated: descents take locks top-down only, the sibling locks taken
\* for merge or steal are acquired in ascending key order, and concurrent
\* tree operations cannot deadlock.
C35_SiblingsAscending ==
    tc_panic = "" => (TopDown /\ SiblingsAscend /\ ~Deadlocked)

\* C35, amended: descents take locks top-down only, and a sibling's lock,
\* be it the right or the left sibling's, is asked for only by an operation
\* that holds the write locks of the parent and of the child, so concurrent
\* tree operations cannot deadlock.
C35_SiblingsUnderParent ==
    tc_panic = "" => (TopDown /\ SiblingUnderParent /\ ~Deadlocked)

\* a remove that holds the root and its last child waits for the child's
\* left sibling, which an insert on its way down holds
C35_Witness ==
    /\ tc_panic = ""
    /\ \E t, u \in Tasks :
          /\ tq[t].op = "remove" /\ tq[t].pc = "sibling"
          /\ IndexOf(tc_heap[tq[t].node], tq[t].sib)
               < IndexOf(tc_heap[tq[t].node], tq[t].child)
          /\ u # t /\ tq[t].sib \in tq[u].held
          /\ ~Locked(Awaits(tq[u]))

====
